---- MODULE Spec2Model ----
(***************************************************************************)
(* State-machine model of the S3 proxy of backend/app: the SQLite metadata *)
(* store (db.py), the admin surface (proxy_meta.py), the SigV4 data plane  *)
(* (proxy_router.py), the backend client registry (backend_clients.py) and *)
(* the replication worker (replication.py, scripts/replication_worker.py). *)
(*                                                                         *)
(* Tables are sequences of rows; a row's AUTOINCREMENT id is its index     *)
(* (no operation of the program deletes a row).  Strings are TLA+ strings, *)
(* so the f-strings and joins of the source are string concatenations.     *)
(***************************************************************************)
EXTENDS Integers, Sequences, FiniteSets, TLC

\* Python None / SQL NULL: of a string, of a row (a sequence of at most one row),
\* of a row id (ids start at 1).
NULL == "<null>"
None == <<>>
Some(v) == <<v>>
NoRow == 0

(***************************************************************************)
(* Bounds of the model and the small sets the inputs are drawn from.       *)
(***************************************************************************)
MaxClock == 1
MaxObjects == 1
MaxJobs == 2
NumWorkers == 2

Customers == {"t1", "t2"}
AccessKeys == {"AK1", "AK2"}
Secrets == {"s1", "s2"}
Regions == {"fi", "de"}
LogicalNames == {"docs"}
BackendIds == {"primary", "cluster-b", "cluster-c"}
ObjectKeys == {"foo.txt"}
Bodies == {"hello", "bye"}
Workers == 1..NumWorkers

VARIABLES
    environ,             \* os.environ: the variables the program reads (NULL: unset)
    now,                 \* the wall clock, in whole seconds (CURRENT_TIMESTAMP, utcnow)
    tenant_credentials,  \* table tenant_credentials
    bucket_mappings,     \* table bucket_mappings
    object_metadata,     \* table object_metadata
    replication_jobs,    \* table replication_jobs
    storage,             \* storage[b]: the objects of backend b, <<bucket, key>> -> bytes
    resp,                \* what the last data-plane request did and answered
    post_objects,        \* the POST /proxy/objects request in flight, or the last one
    worker,              \* worker[w]: the process_pending_jobs call of worker w
    handled,             \* handled[j]: the workers whose handler was invoked on job j
    provider_capabilities, \* table provider_capabilities
    client_cache,        \* the cache of lru_cache around get_client, least recent first
    boto3_clients,       \* boto3_clients[b]: the number of clients made for backend b
    got_client,          \* the outcome of the last call of get_client
    replication_queue,   \* the ReplicationQueue instance of replication_queue.py
    queue_threads,       \* queue_threads[t]: where thread t is in the ReplicationQueue
    queue_history        \* what the calls of the ReplicationQueue have returned and done

vars == <<environ, now, tenant_credentials, bucket_mappings, object_metadata, replication_jobs,
          storage, resp, post_objects, worker, handled, provider_capabilities,
          client_cache, boto3_clients, got_client, replication_queue, queue_threads,
          queue_history>>


(***************************************************************************)
(* crypto_utils.py, byte by byte.  A str is a TLA+ string of printable      *)
(* ASCII characters, bytes are a sequence of numbers 0..255, and the        *)
(* SHA-256 digests of the passphrases of the model are the real ones.       *)
(***************************************************************************)
PASSPHRASE_ENV == "TENANT_SECRET_PASSPHRASE"

\* The passphrase of the test suite, and the values the variable may have on a
\* deployment (NULL: unset).
TestPassphrase == "unit-test-passphrase"
Passphrases == {NULL, "", TestPassphrase, "p"}

\* The environment of a deployment with the backends primary and cluster-b.
\* S3_BACKEND_ENDPOINTS is kept as parse_mapping reads it: the backend ids that
\* have an endpoint.
TestEnviron ==
    [TENANT_SECRET_PASSPHRASE |-> TestPassphrase,
     S3_BACKEND_ENDPOINTS |-> {"primary", "cluster-b"},
     S3_BACKEND_ACCESS_KEY |-> "backend-access",
     S3_BACKEND_SECRET_KEY |-> "backend-secret"]

\* hashlib.sha256(value.encode("utf-8")).digest()
sha256_digest(value) ==
    CASE value = "unit-test-passphrase" ->
           <<71, 75, 23, 77, 186, 8, 36, 135, 123, 8, 193, 247, 189, 6, 148, 184,
             228, 84, 4, 251, 105, 21, 53, 244, 175, 209, 239, 208, 194, 109, 96, 171>>
      [] value = "p" ->
           <<20, 141, 233, 197, 167, 164, 77, 25, 229, 108, 217, 174, 26, 85, 75, 246,
             120, 71, 175, 176, 197, 143, 110, 18, 250, 41, 172, 125, 223, 202, 153, 64>>

\* The characters of the model's strings in the order of their code points:
\* 32..95 and 97..126 (a TLA+ string cannot hold the character 96).
Ascii32 == " !\"#$%&'()*+,-./0123456789:;<=>?@ABCDEFGHIJKLMNOPQRSTUVWXYZ[\\]^_"
Ascii97 == "abcdefghijklmnopqrstuvwxyz{|}~"

CharAt(s, i) == SubSeq(s, i, i)

IndexOf(s, c) == CHOOSE i \in 1..Len(s) : CharAt(s, i) = c

Contains(s, c) == \E i \in 1..Len(s) : CharAt(s, i) = c

ord(c) == IF Contains(Ascii32, c) THEN 31 + IndexOf(Ascii32, c) ELSE 96 + IndexOf(Ascii97, c)

chr(b) == IF b < 96 THEN CharAt(Ascii32, b - 31) ELSE CharAt(Ascii97, b - 96)

\* str.encode("utf-8") of a string of ASCII characters.
encode(s) == [i \in 1..Len(s) |-> ord(CharAt(s, i))]

\* bytes.decode("utf-8"): None when it raises UnicodeDecodeError (a byte above
\* 127) or gives a character that is not one of the model's.
RECURSIVE Chars(_)
Chars(data) == IF data = <<>> THEN "" ELSE chr(Head(data)) \o Chars(Tail(data))

decode(data) ==
    IF \A i \in 1..Len(data) : data[i] \in (32..126) \ {96}
    THEN Some(Chars(data))
    ELSE None

\* b ^ k on bytes.
RECURSIVE xor(_, _)
xor(a, b) ==
    IF a = 0 THEN b
    ELSE IF b = 0 THEN a
    ELSE ((a + b) % 2) + 2 * xor(a \div 2, b \div 2)

\* base64.urlsafe_b64encode: three bytes to four characters, "=" padding.
B64Alphabet == "ABCDEFGHIJKLMNOPQRSTUVWXYZabcdefghijklmnopqrstuvwxyz0123456789-_"

B64Char(n) == CharAt(B64Alphabet, n + 1)

RECURSIVE urlsafe_b64encode(_)
urlsafe_b64encode(data) ==
    IF data = <<>> THEN ""
    ELSE IF Len(data) = 1
    THEN B64Char(data[1] \div 4) \o B64Char((data[1] % 4) * 16) \o "=="
    ELSE IF Len(data) = 2
    THEN B64Char(data[1] \div 4)
           \o B64Char((data[1] % 4) * 16 + data[2] \div 16)
           \o B64Char((data[2] % 16) * 4) \o "="
    ELSE B64Char(data[1] \div 4)
           \o B64Char((data[1] % 4) * 16 + data[2] \div 16)
           \o B64Char((data[2] % 16) * 4 + data[3] \div 64)
           \o B64Char(data[3] % 64)
           \o urlsafe_b64encode(SubSeq(data, 4, Len(data)))

B64Index(c) == IndexOf(B64Alphabet, c) - 1

\* The bytes of one group of four characters, its last one or two being "=".
B64Group(g) ==
    LET n1 == B64Index(CharAt(g, 1))
        n2 == B64Index(CharAt(g, 2))
        b1 == n1 * 4 + n2 \div 16
    IN  IF CharAt(g, 3) = "=" THEN <<b1>>
        ELSE LET n3 == B64Index(CharAt(g, 3))
                 b2 == (n2 % 16) * 16 + n3 \div 4
             IN  IF CharAt(g, 4) = "=" THEN <<b1, b2>>
                 ELSE <<b1, b2, (n3 % 4) * 64 + B64Index(CharAt(g, 4))>>

\* A token urlsafe_b64encode can have made: groups of four characters of the
\* alphabet, the last group ending in at most two "=".
WellPadded(token) ==
    /\ Len(token) % 4 = 0
    /\ \A i \in 1..Len(token) :
          \/ Contains(B64Alphabet, CharAt(token, i))
          \/ /\ CharAt(token, i) = "="
             /\ i >= Len(token) - 1
             /\ i = Len(token) \/ CharAt(token, Len(token)) = "="

RECURSIVE B64Groups(_)
B64Groups(token) ==
    IF token = "" THEN <<>>
    ELSE B64Group(SubSeq(token, 1, 4)) \o B64Groups(SubSeq(token, 5, Len(token)))

\* base64.urlsafe_b64decode: None when it raises binascii.Error.
urlsafe_b64decode(token) == IF WellPadded(token) THEN Some(B64Groups(token)) ELSE None

\* os.getenv(PASSPHRASE_ENV) and the digest of it; None: HTTPException(500).
_get_key ==
    IF environ[PASSPHRASE_ENV] \in {NULL, ""}
    THEN None
    ELSE Some(sha256_digest(environ[PASSPHRASE_ENV]))

\* bytes([b ^ key[i % len(key)] for i, b in enumerate(data)]); TLA+ sequences
\* start at 1.
xor_with_key(data, key) == [i \in 1..Len(data) |-> xor(data[i], key[((i - 1) % Len(key)) + 1])]

\* The body of encrypt_secret after _get_key.
Encrypted(secret, key) == urlsafe_b64encode(xor_with_key(encode(secret), key))

\* A faulty decrypt_secret: the key is not repeated after its last byte.
Decrypted_single_round(token, key) ==
    IF urlsafe_b64decode(token) = None THEN None
    ELSE LET data == urlsafe_b64decode(token)[1]
         IN  decode([i \in 1..Len(data) |->
                       IF i <= Len(key) THEN xor(data[i], key[i]) ELSE data[i]])

\* The body of decrypt_secret after _get_key; None: it raises binascii.Error or
\* UnicodeDecodeError.
Decrypted(token, key) ==
    IF urlsafe_b64decode(token) = None THEN None
    ELSE decode(xor_with_key(urlsafe_b64decode(token)[1], key))

\* The secrets of the model: those of the tenants, and secrets of 0 to 4 and of
\* more than 32 bytes, for every padding of the token and a second round of the
\* key.
LongSecret == "0123456789abcdefghijklmnopqrstuvwxyz"
SecretInputs == Secrets \cup {"", "a", "abc", "abcd", "S3cr3t/Key+=", LongSecret}

\* Encrypted and Decrypted on the secrets, keys and tokens of the model, computed
\* once.
Tokens ==
    [value \in Passphrases \ {NULL, ""} |->
        [secret \in SecretInputs |-> Encrypted(secret, sha256_digest(value))]]

TokenInputs == {Tokens[value][secret] : value \in Passphrases \ {NULL, ""}, secret \in SecretInputs}

Cleartexts ==
    [value \in Passphrases \ {NULL, ""} |->
        [token \in TokenInputs |-> Decrypted(token, sha256_digest(value))]]

\* None: the call raises.
encrypt_secret(secret) ==
    IF _get_key = None THEN None ELSE Some(Tokens[environ[PASSPHRASE_ENV]][secret])

\* None: the call raises (in a request: the answer 500).
decrypt_secret(token) ==
    IF _get_key = None THEN None ELSE Cleartexts[environ[PASSPHRASE_ENV]][token]

(***************************************************************************)
(* hash_utils.py, character by character.  The SHA-256 digests of the hash  *)
(* inputs of the model are the real ones.                                   *)
(***************************************************************************)
DEFAULT_PREFIX == "s3gw"
DEFAULT_HASH_LENGTH == 16

\* The backend ids given to the naming function: those of the deployment, and
\* an empty one, one in mixed case, and ones with an underscore or a dot.
BackendIdInputs == BackendIds \cup {"", "Frontier", "ceph_cluster", "eu.west", "b_"}
CollisionCounters == {0, 1}

\* hashlib.sha256(hash_input.encode("utf-8")).hexdigest()
sha256_hexdigest ==
       ("t1:fi:docs:primary:0" :> "b7cfa89795753a1e0895920627478086290c406f55f546c51b8c37c20d061c99")
    @@ ("t1:fi:docs:primary:1" :> "304d736c6c935574bfd3185965f14d1450ca4e454b7f4614937f59f878d61d95")
    @@ ("t1:fi:docs:cluster-b:0" :> "ead94b2338c826bf9d6eb36c6e9fa55eac95efa8b114300bc3a795ff6e9ed875")
    @@ ("t1:fi:docs:cluster-b:1" :> "067e168d5f0e570ac287528562f9f13be5ac7da2a563961f4596e1841eb6cc6a")
    @@ ("t1:fi:docs:cluster-c:0" :> "693aeb435217ad2a0d3d7af226c231540d52b1df0b5ccd88dcc24321b9745ca0")
    @@ ("t1:fi:docs:cluster-c:1" :> "4bb3817d8dd201ee1618bb5d1e4b42261357acc5a86014438e79fa9f24e3ca94")
    @@ ("t1:fi:docs::0" :> "eedda206de387dc3a1d28846433d622fcb3a39e1e436b4788dc0a735cbdff8a7")
    @@ ("t1:fi:docs::1" :> "26ef2d68a7931ffe0746d567fe44d6c9f94980bc9011d5a05512475b20d632d4")
    @@ ("t1:fi:docs:Frontier:0" :> "225d66b474569d29fc3c5d69a1adc50ba58c4119f7dad05b8ac4f346f2511e0c")
    @@ ("t1:fi:docs:Frontier:1" :> "62c36795cf71149299069fdb753338467e553f269994e679eb55d027c67cf5d9")
    @@ ("t1:fi:docs:ceph_cluster:0" :> "1166d499df880a933d118eb8d4c87be70b51824ab11d9ae46e8277e82dce8dc4")
    @@ ("t1:fi:docs:ceph_cluster:1" :> "a6ba5773c8fe2da0a5c01110ad73e02067f28fa91ea7d34f6d79df4be6a242b9")
    @@ ("t1:fi:docs:eu.west:0" :> "acbeffa37a7f7cacf3bcf5259f73a87683b358c45ffa78b5bc061f10c9ba3082")
    @@ ("t1:fi:docs:eu.west:1" :> "7c6c39655b0656bdca261923ca1410bf8bd59154158e507961b9692d8f38d95f")
    @@ ("t1:fi:docs:b_:0" :> "cc4ef9d2c3522a832dc83fa6babbe6eca6055b3fc75340318def246c11131eef")
    @@ ("t1:fi:docs:b_:1" :> "93393afd7b19c237ed23662265896728d9fa8e8ec73b43200c124f813eaea969")
    @@ ("t1:de:docs:primary:0" :> "9a0052f669592662b5a00fcf88da5cc9568690ef0208b4a06fe0eedfaf4143db")
    @@ ("t1:de:docs:primary:1" :> "411f2a572c6c6c36e2872d463e94585fcb7d50b5a7c1c2fa7432ca1be22305f1")
    @@ ("t1:de:docs:cluster-b:0" :> "99164168f180e3b8910fa75ea585e0ebf1cd4e61282c4f6b71cc6c00d02901ba")
    @@ ("t1:de:docs:cluster-b:1" :> "8bf63efb4bb862896c773fed95ce41ffb9a034cd14edcc006fc05c8b7a1e6b40")
    @@ ("t1:de:docs:cluster-c:0" :> "0197efec40d1157365dede445d43fda045a5944b702794111faf5bae87a7714e")
    @@ ("t1:de:docs:cluster-c:1" :> "a0ff1030d1309b85b17efe5ccd5a80df9b1426802f4d3f76720b098c09561ab6")
    @@ ("t1:de:docs::0" :> "f0f0e808f9991ece54a879e2210c060d714457b6b948f25815bb0f752f589aae")
    @@ ("t1:de:docs::1" :> "7d1194786393e0e669022300f7400ad88a36d298a2ae4202affeead4943331cd")
    @@ ("t1:de:docs:Frontier:0" :> "cef34b953b4713623159bc39b2dbe0e66f1506350b16e46798bfafa41ce597b5")
    @@ ("t1:de:docs:Frontier:1" :> "b494cde42863849c80b7bf66f5831e6b18f51d4ec0619edf103f7442b7ba33e9")
    @@ ("t1:de:docs:ceph_cluster:0" :> "187a3bc0d15e6282cd2c06c3ccd9355cf6ff9d84ca218a5f7b9ede25c8f57856")
    @@ ("t1:de:docs:ceph_cluster:1" :> "5d45ddedd67d5aad351643844a4fee1c1d63c1a6ba957062424f8a9319fbb892")
    @@ ("t1:de:docs:eu.west:0" :> "52b1c5eaf1e52aa7f389bd14bcc428aa13891a92457675846a0543e7fd2fef52")
    @@ ("t1:de:docs:eu.west:1" :> "a87700a4158832cc318c6e5c23f3bc6622c747187fea15c13d4dc45ecb46a276")
    @@ ("t1:de:docs:b_:0" :> "304db0524bb271b394554870bffda8eccc69c52baf156f722f5001de64e4ab09")
    @@ ("t1:de:docs:b_:1" :> "7fed92d805e15d5b9af25226181c1c2c9c5bc520394daee13fbc70dde81016e1")
    @@ ("t2:fi:docs:primary:0" :> "38f3d7aa5568f9dcef898b5e69c17c8366baa0b270ba1523dd299079de0e9cce")
    @@ ("t2:fi:docs:primary:1" :> "0aae138e587780f3a2ca4cfa2f986f40f26fd77d1a68723824186f3bea74c9d4")
    @@ ("t2:fi:docs:cluster-b:0" :> "bd7cf8f1dfe6b385fc0470a19eac517671c575645c0eaa53f4c1d569bbf9c610")
    @@ ("t2:fi:docs:cluster-b:1" :> "c9f46714a2c241a90a5bb3871bcafff9316a032eb8310268042f341780ec5304")
    @@ ("t2:fi:docs:cluster-c:0" :> "25a66bf317dfe2d5ad40e6d36c12e6c56ed3bf741d960b67a09060860ff5f0b3")
    @@ ("t2:fi:docs:cluster-c:1" :> "a9091335a96cdf4095d943d926997bdbac082d6d8a5387c3ba3f348ab50f30ef")
    @@ ("t2:fi:docs::0" :> "2f03eefd77e86abdaa4339aa1cfb4470c4c4ec081e3a5c17d61afe2c29f3afb8")
    @@ ("t2:fi:docs::1" :> "3b88f10e1c44090343aa2561e12e5c4e71cc13f434c6c3451cb6fbca92486c66")
    @@ ("t2:fi:docs:Frontier:0" :> "372bbda3da47b20b924dbe4a5a7b8a0580efa4dc9fb968e69b2f16ad52351e7b")
    @@ ("t2:fi:docs:Frontier:1" :> "375a74a2d6aea88874f7ec4f741165cfc72c2da9d52e83c11c2780683ac0904a")
    @@ ("t2:fi:docs:ceph_cluster:0" :> "f9cb0c722fe67b838ad6925cbd6db9ff77db4cf6fc0f342bab02c2b537ae4a37")
    @@ ("t2:fi:docs:ceph_cluster:1" :> "495618e6c84f3176df67737f12c4af88aefed219d504bd6286d7038d0c155350")
    @@ ("t2:fi:docs:eu.west:0" :> "edab3129b4efd59d2d875f5867e6437a062a7b077d99224ea586068e15c2ec69")
    @@ ("t2:fi:docs:eu.west:1" :> "910a9c1c6cb065fbaa1485e32fcb8691e394b8dd88a8faf218f7a7c0d31376be")
    @@ ("t2:fi:docs:b_:0" :> "3642288670a53ea8643cab73f67ce26c45183df491d83d1611ec3e763bb2d030")
    @@ ("t2:fi:docs:b_:1" :> "aaaca76cda1c60f86469ccdb021dbc7ae2f408a3355870905882f997b204c941")
    @@ ("t2:de:docs:primary:0" :> "bb7a56365f5520406c88582612e2c42cb89e18ba8bb4a05e2ea0ac8aee09af01")
    @@ ("t2:de:docs:primary:1" :> "4561f7317d71f689da54489a7218c8248a8be6a04436abda5039d5e75efcb0db")
    @@ ("t2:de:docs:cluster-b:0" :> "6d7523078b4654ebef3614a766cdd57c40e342b693c2b1d6bc25780ae9239474")
    @@ ("t2:de:docs:cluster-b:1" :> "fd7f405d31173b4eb8e07c04463514555cc88f8b7c3847505615767d33a54ffd")
    @@ ("t2:de:docs:cluster-c:0" :> "7275c6043de5fd96684c702cb814e6b535b0f7fc6f67c1cdbf7848a5fce2d6ac")
    @@ ("t2:de:docs:cluster-c:1" :> "a107f97a0585eb8b354ba20fb5df7808ee8d460409f30f41f27c50405838b690")
    @@ ("t2:de:docs::0" :> "0799d09260c6f29b98f3a606b2136764d963a678ce6fc5fbb44a657fdce85046")
    @@ ("t2:de:docs::1" :> "fba0f88532bbfd7634f10f19d3a1a37aa4f19704ed160d91ddfecdc8feff3b71")
    @@ ("t2:de:docs:Frontier:0" :> "6a55b82067b1cb735a577f420cc5a0d412b5ab26b991ffa5482b4ebef920c8b2")
    @@ ("t2:de:docs:Frontier:1" :> "412153336b82e1aca84ca2601d181123ff43cd8188d55635ed3fa8ab667b1c61")
    @@ ("t2:de:docs:ceph_cluster:0" :> "d89e3a44330ed1cdbd93ec1b9e77844499093bb60ac82dec38a1862e633c6ae2")
    @@ ("t2:de:docs:ceph_cluster:1" :> "f47da2c6cf19f5fb9ffe19da8255fddeba4bc5816201a3f3a5817b013f5e8bc9")
    @@ ("t2:de:docs:eu.west:0" :> "fc5d950171c034d622166028dfbcdb5923f932b03017b1a04b8c5ecc982de647")
    @@ ("t2:de:docs:eu.west:1" :> "af7d80e5656190b9128271aeed6c2b70606d1afc7a888f49a6f1e8f6f690fe41")
    @@ ("t2:de:docs:b_:0" :> "183689ef7658a39f6cdbe030212ae2bd8fc4f79c2498de150b3fc76ff791516e")
    @@ ("t2:de:docs:b_:1" :> "52c853322f3b525cdc05fb69fd4ab3a785a7b9604a4716f05749774d4e2d6b30")

UpperCase == "ABCDEFGHIJKLMNOPQRSTUVWXYZ"
LowerCase == "abcdefghijklmnopqrstuvwxyz"

\* str.lower() on the characters of the model.
RECURSIVE lower(_)
lower(s) ==
    IF s = "" THEN ""
    ELSE (IF Contains(UpperCase, CharAt(s, 1))
          THEN CharAt(LowerCase, IndexOf(UpperCase, CharAt(s, 1)))
          ELSE CharAt(s, 1)) \o lower(SubSeq(s, 2, Len(s)))

\* str.replace(old, new) for one-character old and new.
RECURSIVE replace(_, _, _)
replace(s, old, new) ==
    IF s = "" THEN ""
    ELSE (IF CharAt(s, 1) = old THEN new ELSE CharAt(s, 1))
            \o replace(SubSeq(s, 2, Len(s)), old, new)

\* s[:n]
Prefix(s, n) == IF Len(s) > n THEN SubSeq(s, 1, n) ELSE s

Prefix8(s) == Prefix(s, 8)

\* A faulty naming function: the collision counter is left out of the hash
\* input.
BucketName_without_counter(customer_id, region_id, logical_name, backend_id, collision_counter) ==
    LET hash_input == customer_id \o ":" \o region_id \o ":" \o logical_name \o ":" \o backend_id
                        \o ":" \o ToString(0)
        digest == sha256_hexdigest[hash_input]
        hash_part == Prefix(digest, DEFAULT_HASH_LENGTH)
        shortened == Prefix8(replace(lower(backend_id), "_", "-"))
        backend_suffix == IF shortened = "" THEN "backend" ELSE shortened
    IN  lower(DEFAULT_PREFIX \o "-" \o hash_part \o "-" \o backend_suffix)

\* The body of generate_backend_bucket_name with the default prefix and
\* hash_length.
BucketName(customer_id, region_id, logical_name, backend_id, collision_counter) ==
    LET hash_input == customer_id \o ":" \o region_id \o ":" \o logical_name
                        \o ":" \o backend_id \o ":" \o ToString(collision_counter)
        digest == sha256_hexdigest[hash_input]
        hash_part == Prefix(digest, DEFAULT_HASH_LENGTH)
        shortened == Prefix8(replace(lower(backend_id), "_", "-"))
        backend_suffix == IF shortened = "" THEN "backend" ELSE shortened
        bucket_name == lower(DEFAULT_PREFIX \o "-" \o hash_part \o "-" \o backend_suffix)
    IN  IF Len(bucket_name) > 63
        THEN DEFAULT_PREFIX \o "-" \o Prefix(digest, 20) \o "-" \o Prefix8(backend_suffix)
        ELSE bucket_name

\* BucketName on the inputs of the model, computed once.
BucketNames ==
    [customer_id \in Customers, region_id \in Regions, logical_name \in LogicalNames,
     backend_id \in BackendIdInputs, collision_counter \in CollisionCounters |->
        BucketName(customer_id, region_id, logical_name, backend_id, collision_counter)]

generate_backend_bucket_name(customer_id, region_id, logical_name, backend_id, collision_counter) ==
    BucketNames[customer_id, region_id, logical_name, backend_id, collision_counter]

\* The dict backend_id -> backend_bucket of map_backends, as a function.
map_backends(customer_id, region_id, logical_name, backend_ids) ==
    [b \in backend_ids |->
        generate_backend_bucket_name(customer_id, region_id, logical_name, b, 0)]

(***************************************************************************)
(* db.py: the statements on the metadata store.                            *)
(***************************************************************************)
RowIds(table) == 1..Len(table)

\* A faulty seed statement: INSERT OR REPLACE, which deletes the row of the
\* same (provider, zone_code) and inserts the new one at its place.
InsertOrReplace(table, row) ==
    IF row.country = NULL THEN table
    ELSE IF \E i \in RowIds(table) : /\ table[i].provider = row.provider
                                     /\ table[i].zone_code = row.zone_code
    THEN [i \in RowIds(table) |->
            IF table[i].provider = row.provider /\ table[i].zone_code = row.zone_code
            THEN row ELSE table[i]]
    ELSE Append(table, row)

\* INSERT OR IGNORE of one row of the catalogue: the row is skipped when a NOT
\* NULL column of it is None or a row of its (provider, zone_code) exists.
InsertOrIgnore(table, row) ==
    IF \/ row.country = NULL
       \/ \E i \in RowIds(table) : /\ table[i].provider = row.provider
                                    /\ table[i].zone_code = row.zone_code
    THEN table
    ELSE Append(table, row)

\* cursor.executemany over rows.
RECURSIVE ExecuteMany(_, _)
ExecuteMany(table, rows) ==
    IF rows = <<>> THEN table
    ELSE ExecuteMany(InsertOrIgnore(table, Head(rows)), Tail(rows))

\* The rows seed_provider_data makes of the lines of the CSV: those with a
\* Zone_Code and a Provider.
RECURSIVE CatalogueRows(_)
CatalogueRows(lines) ==
    IF lines = <<>> THEN <<>>
    ELSE IF Head(lines).Zone_Code \notin {NULL, ""} /\ Head(lines).Provider \notin {NULL, ""}
    THEN <<[country |-> Head(lines).Country, zone_code |-> Head(lines).Zone_Code,
            provider |-> Head(lines).Provider, notes |-> Head(lines).Notes]>>
           \o CatalogueRows(Tail(lines))
    ELSE CatalogueRows(Tail(lines))

\* The table after seed_provider_data on the CSV with the given lines.
Seeded(table, lines) == ExecuteMany(table, CatalogueRows(lines))

\* seed_provider_data; exists: DATA_PROVIDERS_CSV is a file.
seed_provider_data(exists, lines) ==
    /\ provider_capabilities' =
         IF exists THEN Seeded(provider_capabilities, lines) ELSE provider_capabilities
    /\ UNCHANGED <<replication_queue, queue_threads, queue_history, client_cache, boto3_clients, got_client, environ, now, tenant_credentials,
                   bucket_mappings, object_metadata, replication_jobs, storage, resp,
                   post_objects, worker, handled>>

\* A faulty upsert_tenant_credentials: ON CONFLICT(access_key) DO NOTHING.
upsert_tenant_credentials_do_nothing(rows, customer_id, access_key, secret_key, t) ==
    LET encrypted_secret == encrypt_secret(secret_key) IN
    IF encrypted_secret = None THEN [exc |-> 500, rows |-> rows]
    ELSE IF \E i \in RowIds(rows) : rows[i].access_key = access_key
    THEN [exc |-> 0, rows |-> rows]
    ELSE [exc |-> 0,
          rows |-> Append(rows, [customer_id |-> customer_id, access_key |-> access_key,
                                 secret_key |-> encrypted_secret[1], created_at |-> t])]

\* exc: 0, or the status of the HTTPException that encrypt_secret raises before
\* the INSERT is executed; rows: the table afterwards.
upsert_tenant_credentials(rows, customer_id, access_key, secret_key, t) ==
    LET encrypted_secret == encrypt_secret(secret_key) IN
    IF encrypted_secret = None THEN [exc |-> 500, rows |-> rows]
    ELSE IF \E i \in RowIds(rows) : rows[i].access_key = access_key
    THEN [exc |-> 0,
          rows |-> [i \in RowIds(rows) |->
                      IF rows[i].access_key = access_key
                      THEN [rows[i] EXCEPT !.customer_id = customer_id,
                                           !.secret_key = encrypted_secret[1]]
                      ELSE rows[i]]]
    ELSE [exc |-> 0,
          rows |-> Append(rows, [customer_id |-> customer_id, access_key |-> access_key,
                                 secret_key |-> encrypted_secret[1], created_at |-> t])]

\* The dict fetch_tenant_by_access_key makes of the row i of rows.  exc: 0, or
\* 500 when decrypt_secret raises; row: None (Python None) or the dict.
CredentialDict(rows, i) ==
    LET secret == decrypt_secret(rows[i].secret_key) IN
    IF secret = None THEN [exc |-> 500, row |-> None]
    ELSE [exc |-> 0,
          row |-> Some([customer_id |-> rows[i].customer_id,
                        access_key |-> rows[i].access_key,
                        secret_key |-> secret[1],
                        created_at |-> rows[i].created_at])]

\* A faulty fetch_tenant_by_access_key: a query without its WHERE clause.
fetch_tenant_without_where(rows, access_key) ==
    IF rows # <<>> THEN CredentialDict(rows, 1) ELSE [exc |-> 0, row |-> None]

fetch_tenant_by_access_key(rows, access_key) ==
    IF \E i \in RowIds(rows) : rows[i].access_key = access_key
    THEN CredentialDict(rows, CHOOSE i \in RowIds(rows) : rows[i].access_key = access_key)
    ELSE [exc |-> 0, row |-> None]

\* A faulty mapping lookup of create_object_metadata: a query that does not
\* filter on backend_id.
MappingId_of_any_backend(rows, customer_id, logical_name, backend_id) ==
    IF \E i \in RowIds(rows) : /\ rows[i].customer_id = customer_id
                               /\ rows[i].logical_name = logical_name
    THEN CHOOSE i \in RowIds(rows) : /\ rows[i].customer_id = customer_id
                                     /\ rows[i].logical_name = logical_name
    ELSE NoRow

\* The id of the bucket_mappings row of the unique key, or NoRow.
MappingId(rows, customer_id, logical_name, backend_id) ==
    IF \E i \in RowIds(rows) : /\ rows[i].customer_id = customer_id
                               /\ rows[i].logical_name = logical_name
                               /\ rows[i].backend_id = backend_id
    THEN CHOOSE i \in RowIds(rows) : /\ rows[i].customer_id = customer_id
                                     /\ rows[i].logical_name = logical_name
                                     /\ rows[i].backend_id = backend_id
    ELSE NoRow

\* A faulty fetch_bucket_mapping: a query that does not filter on backend_id.
fetch_bucket_mapping_of_any_backend(rows, customer_id, logical_name, backend_id) ==
    IF \E i \in RowIds(rows) : rows[i].customer_id = customer_id
                               /\ rows[i].logical_name = logical_name
    THEN LET id == CHOOSE i \in RowIds(rows) : rows[i].customer_id = customer_id
                                               /\ rows[i].logical_name = logical_name
         IN  Some([backend_bucket |-> rows[id].backend_bucket,
                   region_id |-> rows[id].region_id])
    ELSE None

\* A faulty fetch_bucket_mapping: a query that does not filter on customer_id.
fetch_bucket_mapping_of_any_customer(rows, customer_id, logical_name, backend_id) ==
    IF \E i \in RowIds(rows) : rows[i].logical_name = logical_name
                               /\ rows[i].backend_id = backend_id
    THEN LET id == CHOOSE i \in RowIds(rows) : rows[i].logical_name = logical_name
                                               /\ rows[i].backend_id = backend_id
         IN  Some([backend_bucket |-> rows[id].backend_bucket,
                   region_id |-> rows[id].region_id])
    ELSE None

fetch_bucket_mapping(rows, customer_id, logical_name, backend_id) ==
    LET id == MappingId(rows, customer_id, logical_name, backend_id) IN
    IF id = NoRow THEN None
    ELSE Some([backend_bucket |-> rows[id].backend_bucket, region_id |-> rows[id].region_id])

\* A faulty upsert: DO UPDATE SET region_id only.
UpsertMapping_keeps_bucket(rows, customer_id, region_id, logical_name, backend_id, backend_bucket) ==
    LET id == MappingId(rows, customer_id, logical_name, backend_id) IN
    IF id = NoRow
    THEN Append(rows, [customer_id |-> customer_id, region_id |-> region_id,
                       logical_name |-> logical_name, backend_id |-> backend_id,
                       backend_bucket |-> backend_bucket])
    ELSE [rows EXCEPT ![id].region_id = region_id]

\* INSERT ... ON CONFLICT(customer_id, logical_name, backend_id) DO UPDATE
UpsertMapping(rows, customer_id, region_id, logical_name, backend_id, backend_bucket) ==
    LET id == MappingId(rows, customer_id, logical_name, backend_id) IN
    IF id = NoRow
    THEN Append(rows, [customer_id |-> customer_id, region_id |-> region_id,
                       logical_name |-> logical_name, backend_id |-> backend_id,
                       backend_bucket |-> backend_bucket])
    ELSE [rows EXCEPT ![id].region_id = region_id,
                      ![id].backend_bucket = backend_bucket]

\* A faulty insert_replication_job: source_backend_id taken from the parameter.
NewJobRow_source_is_target(objects, mappings, object_id, target_backend, t) ==
    IF object_id \in RowIds(objects)
    THEN LET om == objects[object_id]
         IN  Some([bucket_mapping_id |-> om.bucket_mapping_id,
                   object_metadata_id |-> object_id,
                   source_backend_id |-> target_backend,
                   target_backend |-> target_backend,
                   status |-> "pending", attempts |-> 0, last_error |-> NULL,
                   created_at |-> t])
    ELSE None

\* The row INSERT ... SELECT of insert_replication_job adds for object_id, or None
\* when the join is empty (rowcount = 0, "Object metadata not found").
NewJobRow(objects, mappings, object_id, target_backend, t) ==
    IF object_id \in RowIds(objects)
    THEN LET om == objects[object_id]
             bm == mappings[om.bucket_mapping_id]
         IN  Some([bucket_mapping_id |-> om.bucket_mapping_id,
                   object_metadata_id |-> object_id,
                   source_backend_id |-> bm.backend_id,
                   target_backend |-> target_backend,
                   status |-> "pending", attempts |-> 0, last_error |-> NULL,
                   created_at |-> t])
    ELSE None

\* The row fetch_pending_jobs selects for job id: the job joined with its bucket
\* mapping and its object.
PendingRow(jobs, mappings, objects, id) ==
    LET r == jobs[id]
        bm == mappings[r.bucket_mapping_id]
        om == objects[r.object_metadata_id]
    IN  [id |-> id, object_metadata_id |-> r.object_metadata_id,
         source_backend_id |-> r.source_backend_id, target_backend |-> r.target_backend,
         attempts |-> r.attempts, created_at |-> r.created_at,
         customer_id |-> bm.customer_id, logical_name |-> bm.logical_name,
         backend_bucket |-> bm.backend_bucket, object_key |-> om.object_key]

PendingIds(jobs) == {id \in RowIds(jobs) : jobs[id].status = "pending"}

\* The orders ORDER BY r.created_at ASC allows for the ids of S: created_at is
\* the only sort key, so rows of equal created_at come in any order.
OrderedByCreatedAt(jobs, S) ==
    {seq \in [1..Cardinality(S) -> S] :
        /\ \A i, j \in 1..Cardinality(S) : i < j => seq[i] # seq[j]
        /\ \A i, j \in 1..Cardinality(S) :
              i < j => jobs[seq[i]].created_at <= jobs[seq[j]].created_at}

Take(seq, n) == IF Len(seq) > n THEN SubSeq(seq, 1, n) ELSE seq

\* The results the SELECT of fetch_pending_jobs may return, as sequences of job ids.
fetch_pending_jobs(jobs, limit) ==
    {Take(seq, limit) : seq \in OrderedByCreatedAt(jobs, PendingIds(jobs))}

\* A faulty mark_job_success: it also rewrites the target of the job.
mark_job_success_retargets(jobs, job_id) ==
    [jobs EXCEPT ![job_id].status = "completed",
                 ![job_id].target_backend = jobs[job_id].source_backend_id]

\* The column updated_at, which no statement of the program reads, is left out.
mark_job_success(jobs, job_id) ==
    [jobs EXCEPT ![job_id].status = "completed"]

\* A faulty mark_job_failure: it queues the job again.
mark_job_failure_requeue(jobs, job_id, error) ==
    [jobs EXCEPT ![job_id].status = "pending", ![job_id].last_error = error]

\* A faulty mark_job_failure: it drops the error.
mark_job_failure_without_error(jobs, job_id, error) ==
    [jobs EXCEPT ![job_id].status = "failed", ![job_id].attempts = @ + 1]

mark_job_failure(jobs, job_id, error) ==
    [jobs EXCEPT ![job_id].status = "failed", ![job_id].attempts = @ + 1,
                 ![job_id].last_error = error]

(***************************************************************************)
(* backend_clients.py and the S3 backends behind the clients.              *)
(***************************************************************************)
DEFAULT_BACKEND_ID == "primary"

\* The backend ids of S3_BACKEND_ENDPOINTS.
ENDPOINTS == environ["S3_BACKEND_ENDPOINTS"]

ACCESS_KEY == environ["S3_BACKEND_ACCESS_KEY"]
SECRET_KEY == environ["S3_BACKEND_SECRET_KEY"]

\* The body of get_client: None when it raises HTTPException(500), for an id
\* without endpoint or without the credentials of the backends; else the
\* backend the new client talks to.
get_client(backend_id) ==
    IF backend_id \notin ENDPOINTS THEN None
    ELSE IF ACCESS_KEY \in {NULL, ""} \/ SECRET_KEY \in {NULL, ""} THEN None
    ELSE Some(backend_id)

\* @lru_cache(maxsize=16)
LRU_MAXSIZE == 16

\* The backend ids get_client is called with: seventeen with an endpoint in the
\* larger deployment, and one without.
ConfiguredIds ==
    <<"primary", "b02", "b03", "b04", "b05", "b06", "b07", "b08", "b09", "b10",
      "b11", "b12", "b13", "b14", "b15", "b16", "b17">>
ClientIds == {ConfiguredIds[i] : i \in 1..Len(ConfiguredIds)} \cup {"cluster-b", "nowhere"}

\* The sequence s without its element i.
Without(s, i) == SubSeq(s, 1, i - 1) \o SubSeq(s, i + 1, Len(s))

\* The place of backend_id in the cache, or NoRow.
CacheIndex(cache, backend_id) ==
    IF \E i \in 1..Len(cache) : cache[i].backend_id = backend_id
    THEN CHOOSE i \in 1..Len(cache) : cache[i].backend_id = backend_id
    ELSE NoRow

\* A call of the decorated get_client.  On a hit the cached client is returned
\* and becomes the most recent entry; on a miss the body runs, and the client it
\* returns is cached, in place of the least recent entry when the cache is
\* full.  An exception of the body is not cached.  A client is named by its
\* backend and its number among the clients made for that backend.
lru_cache_get_client(backend_id) ==
    /\ LET hit == CacheIndex(client_cache, backend_id) IN
       IF hit # NoRow
       THEN /\ client_cache' = Append(Without(client_cache, hit), client_cache[hit])
            /\ got_client' = Some([exc |-> 0, client |-> client_cache[hit].client])
            /\ UNCHANGED boto3_clients
       ELSE IF get_client(backend_id) = None
       THEN /\ got_client' = Some([exc |-> 500, client |-> <<>>])
            /\ UNCHANGED <<replication_queue, queue_threads, queue_history, client_cache, boto3_clients>>
       ELSE LET made == <<backend_id, boto3_clients[backend_id] + 1>>
                kept == IF Len(client_cache) >= LRU_MAXSIZE
                        THEN Tail(client_cache) ELSE client_cache
            IN  /\ boto3_clients' = [boto3_clients EXCEPT ![backend_id] = @ + 1]
                /\ client_cache' = Append(kept, [backend_id |-> backend_id, client |-> made])
                /\ got_client' = Some([exc |-> 0, client |-> made])
    /\ UNCHANGED <<replication_queue, queue_threads, queue_history,
                   provider_capabilities, environ, now, tenant_credentials, bucket_mappings,
                   object_metadata, replication_jobs, storage, resp, post_objects, worker,
                   handled>>

HasObject(st, backend_id, bucket, key) == <<bucket, key>> \in DOMAIN st[backend_id]

\* A faulty backend: the first writer of a key wins.
PutObject_keep_existing(st, backend_id, bucket, key, body) ==
    [st EXCEPT ![backend_id] =
        [k \in (DOMAIN @) \cup {<<bucket, key>>} |->
            IF k \in DOMAIN @ THEN @[k] ELSE body]]

PutObject(st, backend_id, bucket, key, body) ==
    [st EXCEPT ![backend_id] =
        [k \in (DOMAIN @) \cup {<<bucket, key>>} |->
            IF k = <<bucket, key>> THEN body ELSE @[k]]]

DeleteObject(st, backend_id, bucket, key) ==
    [st EXCEPT ![backend_id] = [k \in (DOMAIN @) \ {<<bucket, key>>} |-> @[k]]]

(***************************************************************************)
(* proxy_router.py: the SigV4 data plane.                                  *)
(*                                                                         *)
(* A request is [method, logical_name, object_path, backend_id (the query  *)
(* parameter, NULL when absent), body, content_type (the Content-Type      *)
(* header, NULL when absent), authorization (None when the header is       *)
(* absent)].  An Authorization header is [scheme, params]: scheme is the *)
(* text before the first space, params is None when the header has no      *)
(* space, else Some of [Credential, SignedHeaders, Signature], the values   *)
(* of the comma-separated key=value parts: Credential is the sequence of    *)
(* its "/"-separated parts (<<>> when absent or empty), SignedHeaders a     *)
(* string ("" when absent or empty), Signature None when absent or empty.   *)
(* A SigV4 signature is modelled as the record of what was signed:          *)
(* HMAC-SHA256 is injective in the model.                                   *)
(***************************************************************************)
SigV4(secret_key, access_key, region, service, amz_date, method, url, body) ==
    [secret_key |-> secret_key, access_key |-> access_key, region |-> region,
     service |-> service, amz_date |-> amz_date, method |-> method, url |-> url,
     body |-> body]

RequestUrl(req) == <<req.logical_name, req.object_path, req.backend_id>>

\* str.startswith
StartsWith(s, prefix) ==
    Len(s) >= Len(prefix) /\ SubSeq(s, 1, Len(prefix)) = prefix

\* [exc, components]: exc is 0 and components Some(SigV4Components) when the
\* function returns; exc is 401 when it raises HTTPException(401), and 500 when
\* the unpacking of header.split(" ", 1) raises ValueError (a header without a
\* space), which nothing catches.
parse_authorization_header(header) ==
    IF header = None THEN [exc |-> 401, components |-> None]
    ELSE IF ~StartsWith(header[1].scheme, "AWS4-HMAC-SHA256")
    THEN [exc |-> 401, components |-> None]
    ELSE IF header[1].params = None THEN [exc |-> 500, components |-> None]
    ELSE
    LET params == header[1].params[1]
        credential == params.Credential
    IN  IF credential = <<>> \/ params.SignedHeaders = "" \/ params.Signature = None
        THEN [exc |-> 401, components |-> None]
        ELSE IF Len(credential) < 4 THEN [exc |-> 401, components |-> None]
        ELSE [exc |-> 0,
              components |-> Some([access_key |-> credential[1], region |-> credential[3],
                                   signed_headers |-> params.SignedHeaders,
                                   signature |-> params.Signature[1]])]

\* The signature SigV4Auth.add_auth generates for the AWSRequest built from the
\* request: add_auth stamps the request with the current time (it replaces
\* X-Amz-Date by utcnow) before it signs.
GeneratedSignature(req, components, secret_key, t) ==
    SigV4(secret_key, components.access_key, components.region, "s3", t,
          req.method, RequestUrl(req), req.body)

\* A faulty verify_signature: it signs with the secret the client used.
verify_signature_with_client_secret(req, components, secret_key, t) ==
    GeneratedSignature(req, components, components.signature.secret_key, t)
      = components.signature

\* TRUE when verify_signature returns, FALSE when it raises 401.
verify_signature(req, components, secret_key, t) ==
    GeneratedSignature(req, components, secret_key, t) = components.signature

\* What a request leaves behind: the response, and the contents of the backends.
Answer(status, steps, op, body, backends) ==
    [resp |-> [status |-> status, steps |-> steps, op |-> op, body |-> body],
     storage |-> backends]

\* The dispatch of proxy_request on the method, with the client of backend_id.
\* An exception of the client is not caught, so the request is answered 500:
\* the backend fails or cannot be reached (fails), it reports the key as missing
\* (GET, HEAD), or boto3 refuses the call before sending it because the request
\* has no Content-Type and ContentType=None is not a string (PUT).
\* op is the client call: Bucket, Key and, for put_object, Body.
Dispatch(req, backend_id, backend_bucket, steps, fails) ==
    LET key == req.object_path
        op == Some([backend |-> backend_id, method |-> req.method,
                    bucket |-> backend_bucket, key |-> key,
                    body |-> IF req.method = "PUT" THEN req.body ELSE NULL])
        present == HasObject(storage, backend_id, backend_bucket, key)
    IN  CASE req.method = "GET" ->
               IF fails \/ ~present
               THEN Answer(500, Append(steps, "get_object"), op, NULL, storage)
               ELSE Answer(200, Append(steps, "get_object"), op,
                           storage[backend_id][<<backend_bucket, key>>], storage)
          [] req.method = "PUT" ->
               IF fails \/ req.content_type = NULL
               THEN Answer(500, Append(steps, "put_object"), op, NULL, storage)
               ELSE Answer(200, Append(steps, "put_object"), op, NULL,
                           PutObject(storage, backend_id, backend_bucket, key, req.body))
          [] req.method = "DELETE" ->
               IF fails
               THEN Answer(500, Append(steps, "delete_object"), op, NULL, storage)
               ELSE Answer(200, Append(steps, "delete_object"), op, NULL,
                           DeleteObject(storage, backend_id, backend_bucket, key))
          [] req.method = "HEAD" ->
               IF fails \/ ~present
               THEN Answer(500, Append(steps, "head_object"), op, NULL, storage)
               ELSE Answer(200, Append(steps, "head_object"), op, NULL, storage)

\* The body of proxy_request in the current state of the store and the backends.
\* fails: the backend operation of this request raises.
proxy_request_result(req, fails) ==
    LET parsed == parse_authorization_header(req.authorization) IN
    IF parsed.exc # 0
    THEN Answer(parsed.exc, <<"parse_authorization_header">>, None, NULL, storage)
    ELSE
    LET components == parsed.components[1]
        fetched == fetch_tenant_by_access_key(tenant_credentials, components.access_key)
        credential == fetched.row
        steps2 == <<"parse_authorization_header", "fetch_tenant_by_access_key">>
    IN
    IF fetched.exc # 0
    THEN Answer(fetched.exc, steps2, None, NULL, storage)
    ELSE
    IF credential = None
    THEN Answer(403, steps2, None, NULL, storage)
    ELSE
    LET steps3 == Append(steps2, "verify_signature") IN
    IF ~verify_signature(req, components, credential[1].secret_key, now)
    THEN Answer(401, steps3, None, NULL, storage)
    ELSE
    LET backend_id == IF req.backend_id # NULL THEN req.backend_id ELSE DEFAULT_BACKEND_ID
        mapping == fetch_bucket_mapping(bucket_mappings, credential[1].customer_id,
                                        req.logical_name, backend_id)
        steps4 == Append(steps3, "fetch_bucket_mapping")
    IN
    IF mapping = None
    THEN Answer(404, steps4, None, NULL, storage)
    ELSE
    IF get_client(backend_id) = None
    THEN Answer(500, Append(steps4, "get_client"), None, NULL, storage)
    ELSE Dispatch(req, backend_id, mapping[1].backend_bucket,
                  Append(steps4, "get_client"), fails)

\* GET, PUT, DELETE, HEAD /s3/{logical_name}/{object_path}
proxy_request(req, fails) ==
    /\ resp' = proxy_request_result(req, fails).resp
    /\ storage' = proxy_request_result(req, fails).storage
    /\ UNCHANGED <<replication_queue, queue_threads, queue_history, client_cache, boto3_clients, got_client, provider_capabilities, environ, now, tenant_credentials, bucket_mappings, object_metadata,
                   replication_jobs, post_objects, worker, handled>>

(***************************************************************************)
(* proxy_meta.py: the admin surface.                                       *)
(***************************************************************************)
\* A faulty TenantCredentialResponse: a model with the field secret_key.
TenantCredentialResponse_with_secret(row) ==
    [customer_id |-> row.customer_id, access_key |-> row.access_key,
     created_at |-> row.created_at, secret_key |-> row.secret_key]

\* models.TenantCredentialResponse of a dict of fetch_tenant_by_access_key.
TenantCredentialResponse(row) ==
    [customer_id |-> row.customer_id, access_key |-> row.access_key,
     created_at |-> row.created_at]

\* The body of create_tenant_credentials on the table rows: the table afterwards,
\* the status and the JSON of the answer (None: an error answer).
create_tenant_credentials_result(rows, customer_id, access_key, secret_key, t) ==
    LET upserted == upsert_tenant_credentials(rows, customer_id, access_key, secret_key, t)
        fetched == fetch_tenant_by_access_key(upserted.rows, access_key)
    IN  IF upserted.exc # 0
        THEN [rows |-> rows, status |-> upserted.exc, body |-> None]
        ELSE IF fetched.exc # 0
        THEN [rows |-> upserted.rows, status |-> fetched.exc, body |-> None]
        ELSE [rows |-> upserted.rows, status |-> 200,
              body |-> Some(TenantCredentialResponse(fetched.row[1]))]

\* The body of get_tenant_credentials on the table rows.
get_tenant_credentials_result(rows, access_key) ==
    LET fetched == fetch_tenant_by_access_key(rows, access_key) IN
    IF fetched.exc # 0 THEN [status |-> fetched.exc, body |-> None]
    ELSE IF fetched.row = None THEN [status |-> 404, body |-> None]
    ELSE [status |-> 200, body |-> Some(TenantCredentialResponse(fetched.row[1]))]

\* POST /proxy/credentials
create_tenant_credentials(customer_id, access_key, secret_key) ==
    /\ tenant_credentials' =
         create_tenant_credentials_result(tenant_credentials, customer_id, access_key,
                                          secret_key, now).rows
    /\ UNCHANGED <<replication_queue, queue_threads, queue_history, client_cache, boto3_clients, got_client, provider_capabilities, environ, now, bucket_mappings, object_metadata, replication_jobs, storage, resp,
                   post_objects, worker, handled>>

\* The upserts of the loop of create_bucket_mapping over mapping.items(), in the
\* order of the request's backend_ids.
RECURSIVE UpsertMappings(_, _, _, _, _, _)
UpsertMappings(rows, customer_id, region_id, logical_name, backend_ids, mapping) ==
    IF backend_ids = <<>> THEN rows
    ELSE UpsertMappings(
            UpsertMapping(rows, customer_id, region_id, logical_name,
                          Head(backend_ids), mapping[Head(backend_ids)]),
            customer_id, region_id, logical_name, Tail(backend_ids), mapping)

\* POST /proxy/buckets
create_bucket_mapping(customer_id, region_id, logical_name, backend_ids) ==
    /\ LET ids == {backend_ids[i] : i \in 1..Len(backend_ids)}
           mapping == map_backends(customer_id, region_id, logical_name, ids)
       IN  bucket_mappings' = UpsertMappings(bucket_mappings, customer_id, region_id,
                                             logical_name, backend_ids, mapping)
    /\ UNCHANGED <<replication_queue, queue_threads, queue_history, client_cache, boto3_clients, got_client, provider_capabilities, environ, now, tenant_credentials, object_metadata, replication_jobs, storage, resp,
                   post_objects, worker, handled>>

\* models.ReplicationJobResponse: the fields without a default.
ReplicationJobResponseRequired ==
    {"id", "object_id", "source_backend", "target_backend", "status", "attempts",
     "customer_id", "logical_name", "created_at"}

\* The keyword arguments create_object_metadata gives ReplicationJobResponse.
JobsCreatedFields ==
    {"id", "object_id", "target_backend", "status", "attempts", "last_error",
     "customer_id", "logical_name", "created_at"}

\* pydantic raises ValidationError when a required field is not given.
ModelValidates(required, given) == required \subseteq given

\* POST /proxy/objects, up to the commit of the object row: the mapping lookup,
\* the INSERT and conn.commit().  payload: [customer_id, logical_name, backend_id,
\* object_key, targets].  Of the columns of object_metadata the row keeps those
\* a statement of the program reads back: bucket_mapping_id and object_key.
create_object_metadata(payload) ==
    /\ post_objects.pc = "idle"
    /\ Len(object_metadata) < MaxObjects
    /\ LET mapping_id == MappingId(bucket_mappings, payload.customer_id,
                                   payload.logical_name, payload.backend_id)
       IN  IF mapping_id = NoRow
           THEN /\ post_objects' = [pc |-> "idle", object_id |-> NoRow,
                                    remaining |-> <<>>, status |-> 404]
                /\ UNCHANGED object_metadata
           ELSE /\ object_metadata' = Append(object_metadata,
                        [bucket_mapping_id |-> mapping_id,
                         object_key |-> payload.object_key])
                /\ post_objects' =
                     [pc |-> IF payload.targets = <<>> THEN "idle" ELSE "jobs",
                      object_id |-> Len(object_metadata) + 1,
                      remaining |-> payload.targets,
                      status |-> IF payload.targets = <<>> THEN 200 ELSE 0]
    /\ UNCHANGED <<replication_queue, queue_threads, queue_history, client_cache, boto3_clients, got_client, provider_capabilities, environ, now, tenant_credentials, bucket_mappings, replication_jobs, storage,
                   resp, worker, handled>>

\* One round of the loop over payload.targets: insert_replication_job (INSERT and
\* commit), then the ReplicationJobResponse of the job row.  A ValidationError
\* ends the request with 500.
create_object_metadata_job ==
    /\ post_objects.pc = "jobs"
    /\ Len(replication_jobs) < MaxJobs
    /\ LET target == Head(post_objects.remaining)
           row == NewJobRow(object_metadata, bucket_mappings, post_objects.object_id,
                            target, now)
           rest == Tail(post_objects.remaining)
       IN  /\ replication_jobs' = Append(replication_jobs, row[1])
           /\ handled' = Append(handled, {})
           /\ IF ~ModelValidates(ReplicationJobResponseRequired, JobsCreatedFields)
              THEN post_objects' = [post_objects EXCEPT !.pc = "idle", !.status = 500]
              ELSE IF rest = <<>>
              THEN post_objects' = [post_objects EXCEPT !.pc = "idle", !.remaining = rest,
                                                        !.status = 200]
              ELSE post_objects' = [post_objects EXCEPT !.remaining = rest]
    /\ UNCHANGED <<replication_queue, queue_threads, queue_history, client_cache, boto3_clients, got_client, provider_capabilities, environ, now, tenant_credentials, bucket_mappings, object_metadata, storage,
                   resp, worker>>

\* The body of create_replication_job on the tables: the jobs afterwards and the
\* status of the answer.  No handler catches the ValueError of
\* insert_replication_job for an unknown object: the request inserts nothing and
\* is answered 500.
create_replication_job_result(objects, mappings, jobs, object_id, target_backend, t) ==
    LET row == NewJobRow(objects, mappings, object_id, target_backend, t) IN
    IF row = None
    THEN [status |-> 500, jobs |-> jobs]
    ELSE [status |-> 200, jobs |-> Append(jobs, row[1])]

\* POST /proxy/jobs
create_replication_job(object_id, target_backend) ==
    /\ Len(replication_jobs) < MaxJobs
    /\ LET out == create_replication_job_result(object_metadata, bucket_mappings,
                       replication_jobs, object_id, target_backend, now)
       IN  IF out.status # 200
           THEN UNCHANGED <<replication_jobs, handled>>
           ELSE /\ replication_jobs' = out.jobs
                /\ handled' = Append(handled, {})
    /\ UNCHANGED <<replication_queue, queue_threads, queue_history, client_cache, boto3_clients, got_client, provider_capabilities, environ, now, tenant_credentials, bucket_mappings, object_metadata, storage,
                   resp, post_objects, worker>>

(***************************************************************************)
(* replication.py: the worker.  One call of process_pending_jobs is the    *)
(* steps WorkerFetch, then per fetched row WorkerHandler and WorkerMark;   *)
(* each step is one statement on the store or one run of the handler.      *)
(***************************************************************************)
DEFAULT_LIMIT == 10
Limits == {1, DEFAULT_LIMIT}

\* A worker outside process_pending_jobs; processed is what its last call returned.
IdleWorker(processed) ==
    [pc |-> "idle", rows |-> <<>>, processed |-> processed, exc |-> NULL, ops |-> <<>>]

\* What replicate_job does for job: [exc, ops, storage].  exc is the message of
\* the exception it raises, NULL when it returns; ops are the backend operations
\* it issued, in order.  get_fails, put_fails: the backend operation raises.
replicate_job(job, get_fails, put_fails) ==
    LET target_mapping == fetch_bucket_mapping(bucket_mappings, job.customer_id,
                                               job.logical_name, job.target_backend)
        get == [op |-> "get_object", backend |-> job.source_backend_id,
                bucket |-> job.backend_bucket, key |-> job.object_key]
    IN
    IF target_mapping = None
    THEN [exc |-> "No bucket mapping for " \o job.target_backend, ops |-> <<>>,
          storage |-> storage]
    ELSE IF get_client(job.source_backend_id) = None
    THEN [exc |-> "500: S3 endpoint for backend " \o job.source_backend_id \o " not configured",
          ops |-> <<>>, storage |-> storage]
    ELSE IF get_client(job.target_backend) = None
    THEN [exc |-> "500: S3 endpoint for backend " \o job.target_backend \o " not configured",
          ops |-> <<>>, storage |-> storage]
    ELSE IF get_fails \/ ~HasObject(storage, job.source_backend_id, job.backend_bucket,
                                    job.object_key)
    THEN [exc |-> "get_object failed", ops |-> <<get>>, storage |-> storage]
    ELSE
    LET data == storage[job.source_backend_id][<<job.backend_bucket, job.object_key>>]
        put == [op |-> "put_object", backend |-> job.target_backend,
                bucket |-> target_mapping[1].backend_bucket, key |-> job.object_key,
                body |-> data]
    IN  IF put_fails
        THEN [exc |-> "put_object failed", ops |-> <<get, put>>, storage |-> storage]
        ELSE [exc |-> NULL, ops |-> <<get, put>>,
              storage |-> PutObject(storage, put.backend, put.bucket, put.key, data)]

\* rows = fetch_pending_jobs(conn, limit=limit)
WorkerFetch(w, limit) ==
    /\ worker[w].pc = "idle"
    /\ \E ids \in fetch_pending_jobs(replication_jobs, limit) :
         LET rows == [i \in 1..Len(ids) |->
                        PendingRow(replication_jobs, bucket_mappings, object_metadata, ids[i])]
         IN  worker' = [worker EXCEPT ![w] =
                 IF rows = <<>> THEN IdleWorker(0)
                 ELSE [pc |-> "handler", rows |-> rows, processed |-> 0, exc |-> NULL,
                       ops |-> <<>>]]
    /\ UNCHANGED <<replication_queue, queue_threads, queue_history, client_cache, boto3_clients, got_client, provider_capabilities, environ, now, tenant_credentials, bucket_mappings, object_metadata,
                   replication_jobs, storage, resp, post_objects, handled>>

\* try: handler(conn, job), with the default handler replicate_job
WorkerHandler(w, get_fails, put_fails) ==
    /\ worker[w].pc = "handler"
    /\ LET job == Head(worker[w].rows)
           out == replicate_job(job, get_fails, put_fails)
       IN  /\ worker' = [worker EXCEPT ![w].pc = "mark", ![w].exc = out.exc,
                                       ![w].ops = out.ops]
           /\ storage' = out.storage
           /\ handled' = [handled EXCEPT ![job.id] = @ \cup {w}]
    /\ UNCHANGED <<replication_queue, queue_threads, queue_history, client_cache, boto3_clients, got_client, provider_capabilities, environ, now, tenant_credentials, bucket_mappings, object_metadata,
                   replication_jobs, resp, post_objects>>

\* A faulty except/else: the job is marked completed whatever the handler did.
MarkJob_always_success(jobs, job_id, exc) ==
    mark_job_success(jobs, job_id)

\* The jobs table after the except/else of the try: mark_job_failure with
\* str(exc) when the handler raised, mark_job_success when it returned.
MarkJob(jobs, job_id, exc) ==
    IF exc # NULL THEN mark_job_failure(jobs, job_id, exc)
    ELSE mark_job_success(jobs, job_id)

WorkerMark(w) ==
    /\ worker[w].pc = "mark"
    /\ LET job == Head(worker[w].rows)
           rest == Tail(worker[w].rows)
           processed == worker[w].processed + 1
       IN  /\ replication_jobs' = MarkJob(replication_jobs, job.id, worker[w].exc)
           /\ worker' = [worker EXCEPT ![w] =
                 IF rest = <<>> THEN IdleWorker(processed)
                 ELSE [pc |-> "handler", rows |-> rest, processed |-> processed,
                       exc |-> NULL, ops |-> <<>>]]
    /\ UNCHANGED <<replication_queue, queue_threads, queue_history, client_cache, boto3_clients, got_client, provider_capabilities, environ, now, tenant_credentials, bucket_mappings, object_metadata, storage,
                   resp, post_objects, handled>>

(***************************************************************************)
(* The environment: the clock, and the S3 clients that store objects on a  *)
(* backend without passing through the store (the uploads that precede a   *)
(* replication).                                                           *)
(***************************************************************************)
Tick ==
    /\ now < MaxClock
    /\ now' = now + 1
    /\ UNCHANGED <<replication_queue, queue_threads, queue_history, client_cache, boto3_clients, got_client, provider_capabilities, environ, tenant_credentials, bucket_mappings, object_metadata, replication_jobs,
                   storage, resp, post_objects, worker, handled>>

\* An object is uploaded into the physical bucket of a bucket mapping.
BackendUpload(mapping_id, key, body) ==
    /\ mapping_id \in RowIds(bucket_mappings)
    /\ LET bm == bucket_mappings[mapping_id]
       IN  storage' = PutObject(storage, bm.backend_id, bm.backend_bucket, key, body)
    /\ UNCHANGED <<replication_queue, queue_threads, queue_history, client_cache, boto3_clients, got_client, provider_capabilities, environ, now, tenant_credentials, bucket_mappings, object_metadata,
                   replication_jobs, resp, post_objects, worker, handled>>

(***************************************************************************)
(* s3gateway/code/gateway/replication_queue.py: the in-memory              *)
(* ReplicationQueue, its worker threads and the threads that call it.      *)
(* replication_queue.job[j] is the ReplicationJob object with job_id j,    *)
(* which the queue entries and the two dicts refer to.  active_jobs is the *)
(* key order of the dict.  The entries of the PriorityQueue are kept in    *)
(* the order of their insertion_order.                                     *)
(***************************************************************************)
NumQueueWorkers == 2
DEFAULT_PRIORITY == 5
MAX_RETRIES == 3

JobIds == {"job-1", "job-2"}
QueueWorkers == 1..NumQueueWorkers
ApiThreads == {0}
QueueThreads == QueueWorkers \cup ApiThreads

\* ReplicationJob(job_id=..., ...) with the defaults of the dataclass.
ReplicationJob ==
    [status |-> "queued", retry_count |-> 0, priority |-> DEFAULT_PRIORITY,
     max_retries |-> MAX_RETRIES]

\* ReplicationQueue() after __init__ and start(); lock: the thread holding
\* self.lock, a threading.Lock, which is not reentrant.
ReplicationQueue ==
    [queue |-> <<>>, active_jobs |-> <<>>, completed_jobs |-> {}, lock |-> None,
     job |-> [j \in JobIds |-> ReplicationJob]]

\* A worker thread waits in queue.get; a calling thread is outside the queue.
IdleThread(t) ==
    [pc |-> IF t \in QueueWorkers THEN "get" ELSE "idle", job_id |-> NULL,
     remaining |-> <<>>, result |-> <<>>, success |-> FALSE]

\* What the calls have returned and done so far: the jobs given to add_job, the
\* jobs cancel_job returned True for, the jobs _execute_replication was run for,
\* and the last return values of list_active_jobs and get_job_status.
NoQueueHistory ==
    [added |-> {}, cancelled |-> {}, executed |-> {}, listed |-> None, status |-> None]

(***************************************************************************)
(* The specifications.                                                     *)
(***************************************************************************)
Init ==
    /\ environ = TestEnviron
    /\ now = 0
    /\ tenant_credentials = <<>>
    /\ bucket_mappings = <<>>
    /\ object_metadata = <<>>
    /\ replication_jobs = <<>>
    /\ storage = [b \in BackendIds |-> <<>>]
    /\ resp = [status |-> 0, steps |-> <<>>, op |-> None, body |-> NULL]
    /\ post_objects = [pc |-> "idle", object_id |-> NoRow, remaining |-> <<>>,
                       status |-> 0]
    /\ worker = [w \in Workers |-> IdleWorker(0)]
    /\ handled = <<>>
    /\ provider_capabilities = <<>>
    /\ client_cache = <<>>
    /\ boto3_clients = [b \in ClientIds |-> 0]
    /\ got_client = None
    /\ replication_queue = ReplicationQueue
    /\ queue_threads = [t \in QueueThreads |-> IdleThread(t)]
    /\ queue_history = NoQueueHistory

\* The replication subsystem: one tenant's mappings, objects and jobs, the
\* uploads to the backends and the workers, all within one second of the clock
\* (every job has the same created_at, so a fetch may take the jobs in any order).
ReplCustomers == {"t1"}
ReplRegions == {"fi"}
ReplBackendLists == {<<"primary">>, <<"primary", "cluster-b">>}
ReplTargets == {<<>>, <<"cluster-b">>, <<"cluster-c", "cluster-b">>}

ObjectPayloads ==
    [customer_id : ReplCustomers, logical_name : LogicalNames, backend_id : {"primary"},
     object_key : ObjectKeys, targets : ReplTargets]

Next ==
    \/ \E c \in ReplCustomers, r \in ReplRegions, l \in LogicalNames, bs \in ReplBackendLists :
          create_bucket_mapping(c, r, l, bs)
    \/ \E payload \in ObjectPayloads : create_object_metadata(payload)
    \/ create_object_metadata_job
    \/ \E id \in 1..MaxObjects, target \in {"cluster-b", "cluster-c"} :
          create_replication_job(id, target)
    \/ \E key \in ObjectKeys, body \in Bodies : BackendUpload(1, key, body)
    \/ \E w \in Workers, limit \in Limits : WorkerFetch(w, limit)
    \/ \E w \in Workers, get_fails, put_fails \in BOOLEAN : WorkerHandler(w, get_fails, put_fails)
    \/ \E w \in Workers : WorkerMark(w)

Spec == Init /\ [][Next]_vars

\* One worker and the admin calls that make jobs, while the clock advances: jobs
\* are inserted within the same second or in different seconds.
NextFifo ==
    \/ Tick
    \/ \E bs \in ReplBackendLists : create_bucket_mapping("t1", "fi", "docs", bs)
    \/ \E payload \in {p \in ObjectPayloads : p.targets = <<>>} :
          create_object_metadata(payload)
    \/ \E id \in 1..MaxObjects, target \in {"cluster-b", "cluster-c"} :
          create_replication_job(id, target)
    \/ \E limit \in Limits : WorkerFetch(1, limit)
    \/ \E get_fails, put_fails \in BOOLEAN : WorkerHandler(1, get_fails, put_fails)
    \/ WorkerMark(1)

SpecFifo == Init /\ [][NextFifo]_vars

\* The data plane: the tenants' credentials and mappings, and the signed requests,
\* all within one second of the server's clock; a client's clock may be ahead.
ProxyTenants == {<<"t1", "AK1">>, <<"t2", "AK2">>}
StoredSecrets == {"s1"}
ProxyBackendLists == {<<"primary">>, <<"primary", "cluster-b">>}
ClientRegion == "us-east-1"

\* The Authorization header a client makes of its access key, the scope of its
\* Credential and its signature.
SigV4Header(scheme, credential, signed_headers, signature) ==
    Some([scheme |-> scheme,
          params |-> Some([Credential |-> credential, SignedHeaders |-> signed_headers,
                           Signature |-> signature])])

ClientSignedHeaders == "host;x-amz-content-sha256;x-amz-date"

\* The headers of the clients that sign the request they send for the service
\* s3 with the secret they hold, at the time of their clock.
WellFormedAuthorizations(method, url, body) ==
    {SigV4Header("AWS4-HMAC-SHA256",
                 <<ak, ToString(t), ClientRegion, "s3", "aws4_request">>,
                 ClientSignedHeaders,
                 Some(SigV4(sk, ak, ClientRegion, "s3", t, method, url, body))) :
        ak \in AccessKeys, sk \in Secrets, t \in 0..MaxClock}

\* The headers of a client that holds the secret of AK1 and signs at time 0, but
\* sends something else than a well-formed header: another scheme, a longer
\* scheme, the scheme alone, a part missing, a Credential that is not
\* access-key/date/region/s3/aws4_request.  The signature is made for the
\* service sign_service.
MalformedAuthorizations(method, url, body) ==
    LET sig(service) == Some(SigV4("s1", "AK1", ClientRegion, service, 0, method, url, body))
        scope == <<"AK1", "0", ClientRegion, "s3", "aws4_request">>
    IN  {None,
         SigV4Header("Basic", scope, ClientSignedHeaders, sig("s3")),
         SigV4Header("AWS4-HMAC-SHA256-PAYLOAD", scope, ClientSignedHeaders, sig("s3")),
         Some([scheme |-> "AWS4-HMAC-SHA256", params |-> None]),
         SigV4Header("AWS4-HMAC-SHA256", <<>>, ClientSignedHeaders, sig("s3")),
         SigV4Header("AWS4-HMAC-SHA256", scope, "", sig("s3")),
         SigV4Header("AWS4-HMAC-SHA256", scope, ClientSignedHeaders, None),
         SigV4Header("AWS4-HMAC-SHA256", <<"AK1">>, ClientSignedHeaders, sig("s3")),
         SigV4Header("AWS4-HMAC-SHA256", <<"AK1", "0", ClientRegion>>,
                     ClientSignedHeaders, sig("s3")),
         SigV4Header("AWS4-HMAC-SHA256", <<"AK1", "0", ClientRegion, "s3">>,
                     ClientSignedHeaders, sig("s3")),
         SigV4Header("AWS4-HMAC-SHA256", <<"AK1", "0", ClientRegion, "ec2", "aws4_request">>,
                     ClientSignedHeaders, sig("ec2")),
         SigV4Header("AWS4-HMAC-SHA256", <<"AK1", "0", ClientRegion, "ec2", "aws4_request">>,
                     ClientSignedHeaders, sig("s3"))}

Authorizations(method, url, body) ==
    WellFormedAuthorizations(method, url, body) \cup MalformedAuthorizations(method, url, body)

Requests ==
    UNION {
      {[method |-> m, logical_name |-> l, object_path |-> k, backend_id |-> b,
        body |-> body, content_type |-> "text/plain", authorization |-> a] :
          a \in Authorizations(m, <<l, k, b>>, body)} :
      m \in {"GET", "PUT", "DELETE", "HEAD"}, l \in LogicalNames, k \in ObjectKeys,
      b \in {NULL, "cluster-b"}, body \in {"hello"}}

NextProxy ==
    \/ \E tenant \in ProxyTenants, sk \in StoredSecrets :
          create_tenant_credentials(tenant[1], tenant[2], sk)
    \/ \E c \in Customers, r \in {"fi"}, l \in LogicalNames, bs \in ProxyBackendLists :
          create_bucket_mapping(c, r, l, bs)
    \/ \E req \in Requests, fails \in BOOLEAN : proxy_request(req, fails)

SpecProxy == Init /\ [][NextProxy]_vars

(***************************************************************************)
(* The data plane's claims.  A claim about proxy_request is stated for     *)
(* every request of Requests in every reachable state of the store and of  *)
(* the backends: proxy_request_result is what the handler does there.      *)
(***************************************************************************)
\* The well-formed header of req, or None.
Components(req) == parse_authorization_header(req.authorization).components

\* The tenant_credentials rows of an access key.
CredentialRows(access_key) ==
    {i \in RowIds(tenant_credentials) : tenant_credentials[i].access_key = access_key}

\* req is well-formed, its access key is a tenant's, and the signature computed
\* with the tenant's stored secret is not the Signature of the header.
SignatureMismatch(req) ==
    /\ Components(req) # None
    /\ \E i \in CredentialRows(Components(req)[1].access_key) :
          GeneratedSignature(req, Components(req)[1],
                             decrypt_secret(tenant_credentials[i].secret_key)[1], now)
            # Components(req)[1].signature

\* C1: a request whose signature, recomputed with the tenant's stored secret,
\* differs from the Signature of its Authorization header is answered 401, and
\* no operation of a backend client is invoked for it: the backends are as
\* they were.
C1_SignatureAuthority ==
    \A req \in Requests, fails \in BOOLEAN :
       SignatureMismatch(req) =>
          /\ proxy_request_result(req, fails).resp.status = 401
          /\ proxy_request_result(req, fails).resp.op = None
          /\ proxy_request_result(req, fails).storage = storage

\* A request was refused at the signature check while its tenant has a bucket
\* mapping the request would otherwise have reached.
C1_Witness ==
    /\ resp.status = 401
    /\ resp.steps = <<"parse_authorization_header", "fetch_tenant_by_access_key",
                      "verify_signature">>
    /\ \E i \in RowIds(tenant_credentials), j \in RowIds(bucket_mappings) :
          bucket_mappings[j].customer_id = tenant_credentials[i].customer_id

\* The backend a request selects.
SelectedBackend(req) ==
    IF req.backend_id # NULL THEN req.backend_id ELSE DEFAULT_BACKEND_ID

\* C2: every backend operation proxy_request issues goes to the backend of the
\* backend_id parameter (the default when absent) and to the physical bucket
\* that bucket_mappings stores for the customer_id owning the request's access
\* key, the logical name of the path and that backend; no other backend's
\* contents change.
C2_TenantIsolation ==
    \A req \in Requests, fails \in BOOLEAN :
       LET out == proxy_request_result(req, fails) IN
       out.resp.op # None =>
          /\ out.resp.op[1].backend = SelectedBackend(req)
          /\ \E i \in CredentialRows(Components(req)[1].access_key) :
             \E j \in RowIds(bucket_mappings) :
                /\ bucket_mappings[j].customer_id = tenant_credentials[i].customer_id
                /\ bucket_mappings[j].logical_name = req.logical_name
                /\ bucket_mappings[j].backend_id = SelectedBackend(req)
                /\ bucket_mappings[j].backend_bucket = out.resp.op[1].bucket
          /\ \A b \in BackendIds \ {SelectedBackend(req)} : out.storage[b] = storage[b]
          /\ \A k \in DOMAIN storage[SelectedBackend(req)] :
                k[1] # out.resp.op[1].bucket =>
                   /\ k \in DOMAIN out.storage[SelectedBackend(req)]
                   /\ out.storage[SelectedBackend(req)][k] = storage[SelectedBackend(req)][k]

\* Two customers have mapped the same logical name, and the backend named by the
\* parameter has served a request of the second of them in its own bucket.
C2_Witness ==
    /\ resp.op # None
    /\ resp.status = 200
    /\ resp.op[1].backend = "cluster-b"
    /\ \E i, j \in RowIds(bucket_mappings) :
          /\ bucket_mappings[i].customer_id = "t1"
          /\ bucket_mappings[j].customer_id = "t2"
          /\ bucket_mappings[i].logical_name = bucket_mappings[j].logical_name
          /\ bucket_mappings[i].backend_id = "cluster-b"
          /\ bucket_mappings[j].backend_id = "cluster-b"
          /\ bucket_mappings[j].backend_bucket = resp.op[1].bucket

\* C10: a request with a well-formed Authorization header whose access key has
\* no row in tenant_credentials is answered 403 after the lookup of the key:
\* no signature is computed, no mapping looked up, no backend operation issued.
C10_UnknownAccessKey ==
    \A req \in Requests, fails \in BOOLEAN :
       (Components(req) # None /\ CredentialRows(Components(req)[1].access_key) = {}) =>
          /\ proxy_request_result(req, fails).resp.status = 403
          /\ proxy_request_result(req, fails).resp.steps =
                <<"parse_authorization_header", "fetch_tenant_by_access_key">>
          /\ proxy_request_result(req, fails).resp.op = None
          /\ proxy_request_result(req, fails).storage = storage

\* A request with an unknown access key was answered 403 while another tenant
\* has credentials and a bucket mapping.
C10_Witness ==
    /\ resp.status = 403
    /\ tenant_credentials # <<>>
    /\ bucket_mappings # <<>>

(***************************************************************************)
(* The replication subsystem's claims.                                     *)
(***************************************************************************)
\* Worker w runs the handler of the head of its batch in this step.
HandlerStep(w) == worker[w].pc = "handler" /\ worker'[w].pc = "mark"

\* Worker w marks the head of its batch in this step.
MarkStep(w) == worker[w].pc = "mark" /\ worker'[w] # worker[w]

\* The job worker w is at.
CurrentJob(w) == Head(worker[w].rows)

\* C3: with two workers in process_pending_jobs at once, the handler of every
\* job is invoked by at most one worker.
C3_NoDoubleClaim ==
    \A id \in DOMAIN handled : Cardinality(handled[id]) <= 1

\* C4: when a worker marks a job it claimed, the job's status is pending before;
\* it is completed after, with attempts and last_error as before, if the handler
\* returned; it is failed after, with attempts one more and last_error the
\* exception's message, if the handler raised.
C4_JobTransitions ==
    [][\A w \in Workers :
         MarkStep(w) =>
            LET before == replication_jobs[CurrentJob(w).id]
                after == replication_jobs'[CurrentJob(w).id]
            IN  /\ before.status = "pending"
                /\ IF worker[w].exc = NULL
                   THEN /\ after.status = "completed"
                        /\ after.attempts = before.attempts
                        /\ after.last_error = before.last_error
                   ELSE /\ after.status = "failed"
                        /\ after.attempts = before.attempts + 1
                        /\ after.last_error = worker[w].exc]_vars

\* C5: a job whose status is completed in some state is in status pending in no
\* later state, whatever the admin calls and the workers do.
C5_CompletedNeverPending ==
    \A id \in 1..MaxJobs :
       []((id \in RowIds(replication_jobs) /\ replication_jobs[id].status = "completed")
            => [](id \in RowIds(replication_jobs)
                    /\ replication_jobs[id].status # "pending"))

\* A job was completed by one worker and then marked again by the other, which
\* had claimed it too and whose handler raised.
C5_Witness ==
    \E id \in RowIds(replication_jobs) :
       /\ replication_jobs[id].status = "failed"
       /\ handled[id] = Workers
       /\ HasObject(storage, "cluster-b",
                    generate_backend_bucket_name("t1", "fi", "docs", "cluster-b", 0),
                    "foo.txt")

\* The target backend of job has no bucket mapping for the job's customer and
\* logical name.
TargetUnmapped(job) ==
    ~\E i \in RowIds(bucket_mappings) :
        /\ bucket_mappings[i].customer_id = job.customer_id
        /\ bucket_mappings[i].logical_name = job.logical_name
        /\ bucket_mappings[i].backend_id = job.target_backend

MappingMissing(job) == "No bucket mapping for " \o job.target_backend

\* C6: when the target backend of a claimed job has no bucket mapping, the
\* handler raises an error naming the missing mapping without a get_object or a
\* put_object; the worker then marks the job failed with that last_error and
\* goes on with the rest of its batch.
C6_MissingMapping ==
    [][\A w \in Workers :
         /\ (HandlerStep(w) /\ TargetUnmapped(CurrentJob(w))) =>
               /\ worker'[w].exc = MappingMissing(CurrentJob(w))
               /\ worker'[w].ops = <<>>
               /\ storage' = storage
         /\ (MarkStep(w) /\ worker[w].exc = MappingMissing(CurrentJob(w))) =>
               /\ replication_jobs'[CurrentJob(w).id].status = "failed"
               /\ replication_jobs'[CurrentJob(w).id].last_error
                     = MappingMissing(CurrentJob(w))
               /\ worker'[w].processed = worker[w].processed + 1
               /\ Tail(worker[w].rows) # <<>> =>
                     /\ worker'[w].pc = "handler"
                     /\ worker'[w].rows = Tail(worker[w].rows)]_vars

\* A worker has run a batch of two jobs: the first, to the unmapped cluster-c,
\* is failed with the error naming the mapping, and the second is marked too.
C6_Witness ==
    /\ Len(replication_jobs) = 2
    /\ replication_jobs[1].target_backend = "cluster-c"
    /\ replication_jobs[1].status = "failed"
    /\ replication_jobs[1].last_error = "No bucket mapping for cluster-c"
    /\ replication_jobs[2].status # "pending"
    /\ \E w \in Workers : worker[w].pc = "idle" /\ worker[w].processed = 2
                          /\ handled[1] = {w} /\ handled[2] = {w}

\* The physical bucket mapped for the job's customer, logical name and target.
TargetBucket(job) ==
    bucket_mappings[CHOOSE i \in RowIds(bucket_mappings) :
                       /\ bucket_mappings[i].customer_id = job.customer_id
                       /\ bucket_mappings[i].logical_name = job.logical_name
                       /\ bucket_mappings[i].backend_id = job.target_backend].backend_bucket

\* C7: a worker marks a job completed only when the handler's put_object on the
\* target has succeeded; when it succeeds, the bucket mapped for the job's
\* customer, logical name and target backend holds, under the job's object key,
\* the bytes the source bucket held when get_object read them; and a run that
\* fetches while one job is pending fetches that job alone and returns 1.
C7_ReplicationCopies ==
    [][\A w \in Workers :
         /\ (MarkStep(w) /\ replication_jobs'[CurrentJob(w).id].status = "completed"
                         /\ replication_jobs[CurrentJob(w).id].status # "completed") =>
               /\ worker[w].exc = NULL
               /\ Len(worker[w].ops) = 2
               /\ worker[w].ops[2].op = "put_object"
               /\ worker[w].ops[2].backend = CurrentJob(w).target_backend
         /\ (HandlerStep(w) /\ worker'[w].exc = NULL) =>
               /\ ~TargetUnmapped(CurrentJob(w))
               /\ worker'[w].ops[1].op = "get_object"
               /\ worker'[w].ops[1].backend = CurrentJob(w).source_backend_id
               /\ worker'[w].ops[1].bucket = CurrentJob(w).backend_bucket
               /\ worker'[w].ops[2].bucket = TargetBucket(CurrentJob(w))
               /\ storage'[CurrentJob(w).target_backend]
                          [<<TargetBucket(CurrentJob(w)), CurrentJob(w).object_key>>]
                    = storage[CurrentJob(w).source_backend_id]
                             [<<CurrentJob(w).backend_bucket, CurrentJob(w).object_key>>]
         /\ (worker[w].pc = "idle" /\ worker'[w].pc = "handler"
               /\ Cardinality(PendingIds(replication_jobs)) = 1) =>
               /\ Len(worker'[w].rows) = 1
               /\ worker'[w].rows[1].id \in PendingIds(replication_jobs)
               /\ worker'[w].processed = 0
         /\ (MarkStep(w) /\ Len(worker[w].rows) = 1) =>
               /\ worker'[w].pc = "idle"
               /\ worker'[w].processed = worker[w].processed + 1]_vars

\* The one job of the store is completed by the one worker that claimed it,
\* whose run returned 1, and source and target hold the same bytes.
C7_Witness ==
    /\ Len(replication_jobs) = 1
    /\ replication_jobs[1].status = "completed"
    /\ replication_jobs[1].attempts = 0
    /\ \E w \in Workers : handled[1] = {w} /\ worker[w].pc = "idle"
                          /\ worker[w].processed = 1
    /\ HasObject(storage, "cluster-b",
                 generate_backend_bucket_name("t1", "fi", "docs", "cluster-b", 0), "foo.txt")
    /\ storage["cluster-b"][<<generate_backend_bucket_name("t1", "fi", "docs", "cluster-b", 0),
                              "foo.txt">>]
         = storage["primary"][<<generate_backend_bucket_name("t1", "fi", "docs", "primary", 0),
                                "foo.txt">>]

\* The pending jobs in insertion order: ids are assigned in insertion order.
RECURSIVE InsertionOrder(_)
InsertionOrder(S) ==
    IF S = {} THEN <<>>
    ELSE LET first == CHOOSE id \in S : \A other \in S : id <= other
         IN  <<first>> \o InsertionOrder(S \ {first})

\* C8: every result of fetch_pending_jobs(limit) has at most limit jobs, all
\* pending, and is the first limit pending jobs in insertion order, also when
\* jobs share a created_at.
C8_FetchIsFifo ==
    \A limit \in Limits :
       \A ids \in fetch_pending_jobs(replication_jobs, limit) :
          /\ Len(ids) <= limit
          /\ \A i \in 1..Len(ids) : replication_jobs[ids[i]].status = "pending"
          /\ ids = Take(InsertionOrder(PendingIds(replication_jobs)), limit)

\* C9: POST /proxy/objects with targets is one atomic step: while the request is
\* between its statements its object row is not in the store, and after a
\* request that failed neither its object row nor a job of it is in the store.
C9_AtomicObjectAndJobs ==
    /\ post_objects.pc = "jobs" => post_objects.object_id \notin RowIds(object_metadata)
    /\ (post_objects.pc = "idle" /\ post_objects.status >= 400
          /\ post_objects.object_id # NoRow) =>
          /\ post_objects.object_id \notin RowIds(object_metadata)
          /\ \A id \in RowIds(replication_jobs) :
                replication_jobs[id].object_metadata_id # post_objects.object_id

(***************************************************************************)
(* The data plane's claims about the Authorization header, the clock and   *)
(* the bucket mapping.                                                     *)
(***************************************************************************)
\* A Credential of the form access-key/date/region/service/aws4_request.
CredentialHasForm(credential) ==
    Len(credential) = 5 /\ credential[5] = "aws4_request"

\* The Authorization header of req is missing, does not begin with the scheme,
\* is the scheme alone, lacks Credential, SignedHeaders or Signature, or has a
\* Credential that is not a scope.
HeaderMalformed(req) ==
    \/ req.authorization = None
    \/ /\ req.authorization # None
       /\ \/ ~StartsWith(req.authorization[1].scheme, "AWS4-HMAC-SHA256")
          \/ req.authorization[1].params = None
          \/ /\ req.authorization[1].params # None
             /\ \/ req.authorization[1].params[1].Credential = <<>>
                \/ req.authorization[1].params[1].SignedHeaders = ""
                \/ req.authorization[1].params[1].Signature = None
                \/ ~CredentialHasForm(req.authorization[1].params[1].Credential)

\* C11: a request whose Authorization header is missing, does not begin with
\* AWS4-HMAC-SHA256, is the scheme alone, lacks Credential, SignedHeaders or
\* Signature, or has a malformed Credential scope is answered 401 by the parser:
\* no tenant is looked up and no backend operation issued.
C11_MalformedHeaderIs401 ==
    \A req \in Requests, fails \in BOOLEAN :
       HeaderMalformed(req) =>
          /\ proxy_request_result(req, fails).resp.status = 401
          /\ proxy_request_result(req, fails).resp.steps = <<"parse_authorization_header">>
          /\ proxy_request_result(req, fails).resp.op = None
          /\ proxy_request_result(req, fails).storage = storage

\* req has a well-formed header of a tenant's access key, and its Signature is
\* the SigV4 signature of the request, made with the tenant's stored secret for
\* the service s3 at the x-amz-date the client sent.
CorrectlySigned(req) ==
    /\ ~HeaderMalformed(req)
    /\ Components(req) # None
    /\ \E i \in CredentialRows(Components(req)[1].access_key) :
          Components(req)[1].signature =
             SigV4(decrypt_secret(tenant_credentials[i].secret_key)[1],
                   Components(req)[1].access_key, Components(req)[1].region, "s3",
                   Components(req)[1].signature.amz_date,
                   req.method, RequestUrl(req), req.body)

\* C12: a request correctly signed with the tenant's stored secret at the
\* client's x-amz-date passes verify_signature whatever the server's clock
\* shows: it is not answered 401.
C12_ClientDateIsUsed ==
    \A req \in Requests, fails \in BOOLEAN :
       CorrectlySigned(req) => proxy_request_result(req, fails).resp.status # 401

\* req carries a Credential, and it is not access-key/date/region/s3/aws4_request.
ScopeNotS3(req) ==
    /\ req.authorization # None
    /\ req.authorization[1].params # None
    /\ \/ ~CredentialHasForm(req.authorization[1].params[1].Credential)
       \/ req.authorization[1].params[1].Credential[4] # "s3"

\* C13: a request whose Credential is not of the form
\* access-key/date/region/s3/aws4_request is refused and no backend operation
\* is issued for it, whatever its signature.
C13_ScopeMustBeS3 ==
    \A req \in Requests, fails \in BOOLEAN :
       ScopeNotS3(req) =>
          /\ proxy_request_result(req, fails).resp.status >= 400
          /\ proxy_request_result(req, fails).resp.op = None
          /\ proxy_request_result(req, fails).storage = storage

\* req passes the parser, the lookup of the tenant and verify_signature.
Authenticated(req) ==
    /\ Components(req) # None
    /\ CredentialRows(Components(req)[1].access_key) # {}
    /\ ~SignatureMismatch(req)

\* The customer_id of the tenant of an authenticated request.
TenantOf(req) ==
    tenant_credentials[CHOOSE i \in RowIds(tenant_credentials) :
        tenant_credentials[i].access_key = Components(req)[1].access_key].customer_id

\* The bucket_mappings rows of a tenant, a logical name and a backend.
MappingRows(customer_id, logical_name, backend_id) ==
    {i \in RowIds(bucket_mappings) : /\ bucket_mappings[i].customer_id = customer_id
                                     /\ bucket_mappings[i].logical_name = logical_name
                                     /\ bucket_mappings[i].backend_id = backend_id}

\* C14: an authenticated request for which bucket_mappings has no row of (the
\* tenant's customer_id, the logical name, the selected backend) is answered
\* 404 after the lookup of the mapping: no backend client is obtained and no
\* backend operation issued.
C14_MappingNotFound ==
    \A req \in Requests, fails \in BOOLEAN :
       (Authenticated(req)
          /\ MappingRows(TenantOf(req), req.logical_name, SelectedBackend(req)) = {}) =>
          /\ proxy_request_result(req, fails).resp.status = 404
          /\ proxy_request_result(req, fails).resp.steps =
                <<"parse_authorization_header", "fetch_tenant_by_access_key",
                  "verify_signature", "fetch_bucket_mapping">>
          /\ proxy_request_result(req, fails).resp.op = None
          /\ proxy_request_result(req, fails).storage = storage

\* A request was answered 404 for a backend its tenant has not mapped, while the
\* tenant has mapped the logical name on another backend and another tenant has
\* mapped it on this one.
C14_Witness ==
    /\ resp.status = 404
    /\ \E i \in RowIds(tenant_credentials) :
          LET c == tenant_credentials[i].customer_id IN
          /\ MappingRows(c, "docs", "cluster-b") = {}
          /\ MappingRows(c, "docs", "primary") # {}
          /\ \E other \in Customers \ {c} : MappingRows(other, "docs", "cluster-b") # {}
          /\ \A j \in RowIds(tenant_credentials) : tenant_credentials[j].customer_id = c

(***************************************************************************)
(* The objects of one tenant: its credentials, its mappings, and requests  *)
(* for two keys signed with its secret, or with another one, in the second *)
(* of the server's clock; PUTs with two bodies, with and without a         *)
(* Content-Type.                                                           *)
(***************************************************************************)
ObjectRequestKeys == {"foo.txt", "bar.txt"}

ObjectAuthorizations(method, url, body) ==
    {SigV4Header("AWS4-HMAC-SHA256", <<"AK1", "0", ClientRegion, "s3", "aws4_request">>,
                 ClientSignedHeaders,
                 Some(SigV4(sk, "AK1", ClientRegion, "s3", 0, method, url, body))) :
        sk \in Secrets}

ObjectRequests ==
    UNION {
      {[method |-> m, logical_name |-> "docs", object_path |-> k, backend_id |-> b,
        body |-> body, content_type |-> ct, authorization |-> a] :
          a \in ObjectAuthorizations(m, <<"docs", k, b>>, body),
          ct \in IF m = "PUT" THEN {NULL, "text/plain"} ELSE {NULL}} :
      m \in {"GET", "PUT", "DELETE", "HEAD"}, k \in ObjectRequestKeys,
      b \in {NULL, "cluster-b"}, body \in Bodies}

NextObjects ==
    \/ create_tenant_credentials("t1", "AK1", "s1")
    \/ \E bs \in ProxyBackendLists : create_bucket_mapping("t1", "fi", "docs", bs)
    \/ \E req \in ObjectRequests, fails \in BOOLEAN : proxy_request(req, fails)

SpecObjects == Init /\ [][NextObjects]_vars

\* req is authenticated and its tenant has mapped the logical name on the
\* selected backend, which has an endpoint: the request reaches the backend.
ReachesBackend(req) ==
    /\ Authenticated(req)
    /\ MappingRows(TenantOf(req), req.logical_name, SelectedBackend(req)) # {}
    /\ get_client(SelectedBackend(req)) # None

\* The place of the object of a request that reaches the backend.
ObjectPlace(req) ==
    <<bucket_mappings[CHOOSE i \in MappingRows(TenantOf(req), req.logical_name,
                                               SelectedBackend(req)) : TRUE].backend_bucket,
      req.object_path>>

\* C15: for one tenant, logical bucket, backend and key, an authenticated GET
\* after a successful PUT answers 200 with the body of that PUT; the object a
\* successful PUT stored stays as it is until the next successful PUT or DELETE
\* of the same place, so the PUT seen is the most recent one; and a PUT of the
\* body the object already has leaves the backends as they are.
C15_LastPutWins ==
    /\ (resp.status = 200 /\ resp.op # None /\ resp.op[1].method = "PUT") =>
          \A req \in ObjectRequests :
             (req.method = "GET" /\ ReachesBackend(req)
                /\ SelectedBackend(req) = resp.op[1].backend
                /\ ObjectPlace(req) = <<resp.op[1].bucket, resp.op[1].key>>) =>
                /\ proxy_request_result(req, FALSE).resp.status = 200
                /\ proxy_request_result(req, FALSE).resp.body = resp.op[1].body
    /\ \A req \in ObjectRequests, fails \in BOOLEAN :
          LET out == proxy_request_result(req, fails)
              written == out.resp.status = 200 /\ out.resp.op # None
                         /\ out.resp.op[1].method \in {"PUT", "DELETE"}
          IN  /\ (ReachesBackend(req) /\ req.method = "GET" /\ ~fails
                    /\ HasObject(storage, SelectedBackend(req), ObjectPlace(req)[1],
                                 ObjectPlace(req)[2])) =>
                    /\ out.resp.status = 200
                    /\ out.resp.body = storage[SelectedBackend(req)][ObjectPlace(req)]
              /\ (req.method = "PUT" /\ out.resp.status = 200) =>
                    /\ ReachesBackend(req)
                    /\ HasObject(out.storage, SelectedBackend(req), ObjectPlace(req)[1],
                                 ObjectPlace(req)[2])
                    /\ out.storage[SelectedBackend(req)][ObjectPlace(req)] = req.body
                    /\ (HasObject(storage, SelectedBackend(req), ObjectPlace(req)[1],
                                  ObjectPlace(req)[2])
                          /\ storage[SelectedBackend(req)][ObjectPlace(req)] = req.body) =>
                          out.storage = storage
              /\ \A b \in BackendIds : \A place \in DOMAIN storage[b] :
                    ~(written /\ b = out.resp.op[1].backend
                              /\ place = <<out.resp.op[1].bucket, out.resp.op[1].key>>) =>
                       /\ place \in DOMAIN out.storage[b]
                       /\ out.storage[b][place] = storage[b][place]

\* A GET has answered bye, the body of the last PUT of foo.txt on the default
\* backend, while the other key and the other backend hold hello.
C15_Witness ==
    /\ resp.status = 200
    /\ resp.op # None
    /\ resp.op[1].method = "GET"
    /\ resp.op[1].backend = "primary"
    /\ resp.op[1].key = "foo.txt"
    /\ resp.body = "bye"
    /\ HasObject(storage, "primary", resp.op[1].bucket, "bar.txt")
    /\ storage["primary"][<<resp.op[1].bucket, "bar.txt">>] = "hello"
    /\ \E place \in DOMAIN storage["cluster-b"] :
          place[2] = "foo.txt" /\ storage["cluster-b"][place] = "hello"

\* C16: an authenticated HEAD that reaches a backend which answers is answered
\* 404 when the backend reports the key as missing, and 200 when the key exists.
C16_HeadMissingIs404 ==
    \A req \in ObjectRequests :
       (req.method = "HEAD" /\ ReachesBackend(req)) =>
          proxy_request_result(req, FALSE).resp.status =
             IF HasObject(storage, SelectedBackend(req), ObjectPlace(req)[1],
                          ObjectPlace(req)[2])
             THEN 200 ELSE 404

\* C17: when the backend operation of an authenticated request raises, the
\* answer is the backend's status code when there is one (404 for the key the
\* backend reports as missing) and 502 when there is none (the backend failed
\* without an answer).
C17_BackendFailureIs502 ==
    \A req \in ObjectRequests, fails \in BOOLEAN :
       (ReachesBackend(req) /\ proxy_request_result(req, fails).resp.status # 200) =>
          proxy_request_result(req, fails).resp.status =
             IF ~fails /\ req.method \in {"GET", "HEAD"} THEN 404 ELSE 502

(***************************************************************************)
(* admin.py and the gate of the admin surface.  Every route of             *)
(* proxy_meta.py has dependencies=[Depends(require_admin)], which runs     *)
(* before the handler.                                                     *)
(***************************************************************************)
\* A faulty require_admin: it only asks for the presence of the header.
require_admin_any_key(x_admin_key, admin_key) ==
    IF admin_key = NULL THEN 500
    ELSE IF x_admin_key = NULL THEN 401
    ELSE 0

\* 0 when require_admin returns, else the status of the HTTPException it raises.
\* x_admin_key: the header X-Admin-Key (NULL when absent); admin_key: what
\* os.getenv("ADMIN_API_KEY") gives (NULL when unset).
require_admin(x_admin_key, admin_key) ==
    IF admin_key = NULL \/ admin_key = "" THEN 500
    ELSE IF x_admin_key # admin_key THEN 401
    ELSE 0

\* An admin request: the gate, then the handler of the route.
AdminRequest(x_admin_key, admin_key, handler) ==
    IF require_admin(x_admin_key, admin_key) # 0
    THEN /\ resp' = [status |-> require_admin(x_admin_key, admin_key),
                     steps |-> <<"require_admin">>, op |-> None, body |-> NULL]
         /\ UNCHANGED <<replication_queue, queue_threads, queue_history, client_cache, boto3_clients, got_client, provider_capabilities, environ, now, tenant_credentials, bucket_mappings, object_metadata,
                        replication_jobs, storage, post_objects, worker, handled>>
    ELSE handler

\* The answer of a GET route, which reads the store.
AdminGet(route, status) ==
    /\ resp' = [status |-> status, steps |-> <<"require_admin", route>>, op |-> None,
                body |-> NULL]
    /\ UNCHANGED <<replication_queue, queue_threads, queue_history, client_cache, boto3_clients, got_client, provider_capabilities, environ, now, tenant_credentials, bucket_mappings, object_metadata,
                   replication_jobs, storage, post_objects, worker, handled>>

\* The responses GET /proxy/buckets/{customer_id}/{logical_name} may give on a
\* table rows: region_id is that of rows[0] of a SELECT without ORDER BY, so of
\* any of the rows of the logical bucket.
get_bucket_mapping(rows, customer_id, logical_name) ==
    LET found == {i \in RowIds(rows) : /\ rows[i].customer_id = customer_id
                                       /\ rows[i].logical_name = logical_name}
    IN  IF found = {}
        THEN {[status |-> 404, region_id |-> NULL, backend_mapping |-> <<>>]}
        ELSE {[status |-> 200, region_id |-> rows[first].region_id,
               backend_mapping |->
                  [b \in {rows[i].backend_id : i \in found} |->
                     rows[CHOOSE i \in found : rows[i].backend_id = b].backend_bucket]] :
                first \in found}

\* The response of POST /proxy/buckets.
BucketMappingResponse(customer_id, region_id, logical_name, backend_ids) ==
    [status |-> 200, region_id |-> region_id,
     backend_mapping |-> map_backends(customer_id, region_id, logical_name,
                                      {backend_ids[i] : i \in 1..Len(backend_ids)})]

\* GET /proxy/buckets/{customer_id}/{logical_name}
get_bucket_mapping_endpoint(customer_id, logical_name) ==
    \E r \in get_bucket_mapping(bucket_mappings, customer_id, logical_name) :
       AdminGet("get_bucket_mapping", r.status)

\* The objects of the ObjectListResponse of list_object_metadata: the rows of
\* object_metadata joined with their bucket mapping, of one logical bucket.
list_object_metadata_result(objects, mappings, customer_id, logical_name) ==
    {[id |-> id, object_key |-> objects[id].object_key,
      backend_id |-> mappings[objects[id].bucket_mapping_id].backend_id,
      backend_bucket |-> mappings[objects[id].bucket_mapping_id].backend_bucket] :
     id \in {i \in RowIds(objects) :
               /\ objects[i].bucket_mapping_id \in RowIds(mappings)
               /\ mappings[objects[i].bucket_mapping_id].customer_id = customer_id
               /\ mappings[objects[i].bucket_mapping_id].logical_name = logical_name}}

\* GET /proxy/objects/{customer_id}/{logical_name}
list_object_metadata(customer_id, logical_name) == AdminGet("list_object_metadata", 200)

\* GET /proxy/jobs
list_replication_jobs_endpoint == AdminGet("list_replication_jobs_endpoint", 200)

\* GET /proxy/credentials/{access_key}
get_tenant_credentials(access_key) ==
    AdminGet("get_tenant_credentials",
             get_tenant_credentials_result(tenant_credentials, access_key).status)

\* The admin surface: requests with and without the admin key, on a server with
\* and without ADMIN_API_KEY; the bucket mappings of one customer in two regions.
AdminHeaderKeys == {NULL, "test-admin", "wrong"}
AdminConfigs == {NULL, "test-admin"}
AdminBackendLists == {<<"primary">>, <<"cluster-b">>, <<"primary", "cluster-b">>}
AdminTargets == {<<>>, <<"cluster-b">>}

AdminObjectPayloads ==
    [customer_id : {"t1"}, logical_name : LogicalNames, backend_id : {"primary"},
     object_key : ObjectKeys, targets : AdminTargets]

NextAdmin ==
    \/ \E x \in AdminHeaderKeys, cfg \in AdminConfigs :
          \/ AdminRequest(x, cfg, create_tenant_credentials("t1", "AK1", "s1"))
          \/ \E r \in Regions, bs \in AdminBackendLists :
                AdminRequest(x, cfg, create_bucket_mapping("t1", r, "docs", bs))
          \/ \E payload \in AdminObjectPayloads :
                AdminRequest(x, cfg, create_object_metadata(payload))
          \/ AdminRequest(x, cfg, create_replication_job(1, "cluster-b"))
          \/ \E c \in Customers :
                AdminRequest(x, cfg, get_bucket_mapping_endpoint(c, "docs"))
          \/ AdminRequest(x, cfg, list_object_metadata("t1", "docs"))
          \/ AdminRequest(x, cfg, list_replication_jobs_endpoint)
          \/ \E ak \in AccessKeys : AdminRequest(x, cfg, get_tenant_credentials(ak))
    \/ create_object_metadata_job

SpecAdmin == Init /\ [][NextAdmin]_vars

(***************************************************************************)
(* The admin surface's claims.                                             *)
(***************************************************************************)
\* The gate has to refuse: ADMIN_API_KEY is unset, or the header is not the key.
MustRefuse(x_admin_key, admin_key) == admin_key = NULL \/ x_admin_key # admin_key

\* This step is not the admin request of handler with a key the gate has to
\* refuse, or it answers 401 (500 when ADMIN_API_KEY is unset) and leaves the
\* metadata store as it is.
Gated(x_admin_key, admin_key, handler) ==
    (MustRefuse(x_admin_key, admin_key) /\ AdminRequest(x_admin_key, admin_key, handler)) =>
       /\ resp'.status = IF admin_key = NULL THEN 500 ELSE 401
       /\ UNCHANGED <<replication_queue, queue_threads, queue_history, client_cache, boto3_clients, got_client, provider_capabilities, environ, tenant_credentials, bucket_mappings, object_metadata,
                      replication_jobs, post_objects>>

\* C18: on every admin endpoint, POST and GET of credentials, buckets, objects
\* and jobs, a request whose X-Admin-Key is not the configured ADMIN_API_KEY is
\* answered 401, a request while ADMIN_API_KEY is unset is answered 500, and
\* neither changes the metadata store.
C18_AdminGate ==
    [][\A x \in AdminHeaderKeys, cfg \in AdminConfigs :
         /\ Gated(x, cfg, create_tenant_credentials("t1", "AK1", "s1"))
         /\ \A r \in Regions, bs \in AdminBackendLists :
               Gated(x, cfg, create_bucket_mapping("t1", r, "docs", bs))
         /\ \A payload \in AdminObjectPayloads :
               Gated(x, cfg, create_object_metadata(payload))
         /\ Gated(x, cfg, create_replication_job(1, "cluster-b"))
         /\ \A c \in Customers : Gated(x, cfg, get_bucket_mapping_endpoint(c, "docs"))
         /\ Gated(x, cfg, list_object_metadata("t1", "docs"))
         /\ Gated(x, cfg, list_replication_jobs_endpoint)
         /\ \A ak \in AccessKeys : Gated(x, cfg, get_tenant_credentials(ak))]_vars

\* An admin request was refused with 401 by a server whose store holds
\* credentials, a mapping, an object and a job.
C18_Witness ==
    /\ resp.status = 401
    /\ resp.steps = <<"require_admin">>
    /\ tenant_credentials # <<>>
    /\ bucket_mappings # <<>>
    /\ object_metadata # <<>>
    /\ replication_jobs # <<>>

\* The rows of the logical bucket docs of customer t1 on backend b in a table.
DocsRows(rows, b) ==
    {i \in RowIds(rows) : /\ rows[i].customer_id = "t1"
                          /\ rows[i].logical_name = "docs"
                          /\ rows[i].backend_id = b}

\* C19: bucket_mappings has at most one row per (customer_id, logical_name,
\* backend_id), each row's backend_bucket is the name the naming function gives
\* for the row's customer, region_id, logical name and backend with collision
\* counter 0, and a POST /proxy/buckets leaves exactly one row for each backend
\* id it posts and keeps the rows of the backends posted before.
C19_OneRowPerBackend ==
    /\ [](/\ \A i, j \in RowIds(bucket_mappings) :
               (/\ bucket_mappings[i].customer_id = bucket_mappings[j].customer_id
                /\ bucket_mappings[i].logical_name = bucket_mappings[j].logical_name
                /\ bucket_mappings[i].backend_id = bucket_mappings[j].backend_id) => i = j
          /\ \A i \in RowIds(bucket_mappings) :
               bucket_mappings[i].backend_bucket =
                  generate_backend_bucket_name(bucket_mappings[i].customer_id,
                                               bucket_mappings[i].region_id,
                                               bucket_mappings[i].logical_name,
                                               bucket_mappings[i].backend_id, 0))
    /\ [][\A r \in Regions, bs \in AdminBackendLists :
            create_bucket_mapping("t1", r, "docs", bs) =>
               /\ \A n \in 1..Len(bs) :
                     /\ Cardinality(DocsRows(bucket_mappings', bs[n])) = 1
                     /\ \A i \in DocsRows(bucket_mappings', bs[n]) :
                           bucket_mappings'[i].region_id = r
               /\ \A b \in BackendIds :
                     DocsRows(bucket_mappings, b) # {} =>
                        Cardinality(DocsRows(bucket_mappings', b)) = 1]_vars

\* The logical bucket has one row per backend, after posts of its two backends
\* in different regions.
C19_Witness ==
    /\ Len(bucket_mappings) = 2
    /\ bucket_mappings[1].backend_id = "cluster-b"
    /\ bucket_mappings[1].region_id = "de"
    /\ bucket_mappings[2].backend_id = "primary"
    /\ bucket_mappings[2].region_id = "fi"

\* C20: the GET of a logical bucket right after a POST for it returns what the
\* POST returned: the same region_id and the same backend_mapping, which is the
\* full mapping of the logical bucket.
C20_GetReturnsLastPost ==
    \A r \in Regions, bs \in AdminBackendLists :
       LET posted == UpsertMappings(bucket_mappings, "t1", r, "docs", bs,
                        map_backends("t1", r, "docs", {bs[n] : n \in 1..Len(bs)}))
       IN  \A got \in get_bucket_mapping(posted, "t1", "docs") :
              got = BucketMappingResponse("t1", r, "docs", bs)

(***************************************************************************)
(* Tenant credentials: POST and GET /proxy/credentials and the data plane  *)
(* on deployments with and without TENANT_SECRET_PASSPHRASE.               *)
(***************************************************************************)
InitCredentials ==
    /\ environ \in {[TestEnviron EXCEPT ![PASSPHRASE_ENV] = value] : value \in Passphrases}
    /\ now = 0
    /\ tenant_credentials = <<>>
    /\ bucket_mappings = <<>>
    /\ object_metadata = <<>>
    /\ replication_jobs = <<>>
    /\ storage = [b \in BackendIds |-> <<>>]
    /\ resp = [status |-> 0, steps |-> <<>>, op |-> None, body |-> NULL]
    /\ post_objects = [pc |-> "idle", object_id |-> NoRow, remaining |-> <<>>,
                       status |-> 0]
    /\ worker = [w \in Workers |-> IdleWorker(0)]
    /\ handled = <<>>
    /\ provider_capabilities = <<>>
    /\ client_cache = <<>>
    /\ boto3_clients = [b \in ClientIds |-> 0]
    /\ got_client = None
    /\ replication_queue = ReplicationQueue
    /\ queue_threads = [t \in QueueThreads |-> IdleThread(t)]
    /\ queue_history = NoQueueHistory

NextCredentials ==
    \/ \E c \in Customers, ak \in AccessKeys, sk \in Secrets :
          create_tenant_credentials(c, ak, sk)
    \/ \E ak \in AccessKeys : get_tenant_credentials(ak)
    \/ \E req \in Requests : proxy_request(req, FALSE)
    \/ Tick

SpecCredentials == InitCredentials /\ [][NextCredentials]_vars

PassphraseSet == environ[PASSPHRASE_ENV] \notin {NULL, ""}

\* POST /proxy/credentials (customer_id, access_key, secret_key) in the current
\* state: afterwards the fetch of access_key gives customer_id and secret_key, and
\* the fetch of every other key gives what it gave before.
LastUpsertIsFetched(customer_id, access_key, secret_key) ==
    LET after == create_tenant_credentials_result(tenant_credentials, customer_id,
                                                  access_key, secret_key, now).rows
        fetched == fetch_tenant_by_access_key(after, access_key)
    IN  /\ fetched.exc = 0
        /\ fetched.row # None
        /\ fetched.row[1].customer_id = customer_id
        /\ fetched.row[1].secret_key = secret_key
        /\ \A other \in AccessKeys \ {access_key} :
              fetch_tenant_by_access_key(after, other)
                = fetch_tenant_by_access_key(tenant_credentials, other)

\* C21: tenant_credentials never holds two rows of one access key; with the
\* passphrase set, after an upsert of a key the fetch of that key returns the
\* customer_id and the cleartext secret of that upsert, and the fetch of any
\* other key is as before; the table starts empty and only a POST
\* /proxy/credentials changes it, so a key never upserted has no row.
C21_OneRowPerAccessKey ==
    /\ tenant_credentials = <<>>
    /\ [](/\ \A i, j \in RowIds(tenant_credentials) :
                tenant_credentials[i].access_key = tenant_credentials[j].access_key
                   => i = j
          /\ PassphraseSet =>
                \A c \in Customers, ak \in AccessKeys, sk \in Secrets :
                   LastUpsertIsFetched(c, ak, sk))
    /\ [][tenant_credentials' # tenant_credentials =>
            \E c \in Customers, ak \in AccessKeys, sk \in Secrets :
               /\ tenant_credentials' =
                    upsert_tenant_credentials(tenant_credentials, c, ak, sk, now).rows
               /\ fetch_tenant_by_access_key(tenant_credentials', ak).row # None]_vars

\* AK1 was upserted twice, the second time for another customer with another
\* secret than the first, and AK2 never: the fetch of AK1 gives the second
\* upsert and AK2 has no row.
C21_Witness ==
    /\ now = 1
    /\ Len(tenant_credentials) = 1
    /\ tenant_credentials[1].created_at = 0
    /\ fetch_tenant_by_access_key(tenant_credentials, "AK1").row # None
    /\ fetch_tenant_by_access_key(tenant_credentials, "AK1").row[1].customer_id = "t2"
    /\ fetch_tenant_by_access_key(tenant_credentials, "AK1").row[1].secret_key = "s2"
    /\ fetch_tenant_by_access_key(tenant_credentials, "AK2").row = None
    /\ resp.steps = <<"require_admin", "get_tenant_credentials">>
    /\ resp.status = 200

\* The tables that differ from rows only in the secrets stored for the tenants.
SecretVariants(rows) ==
    IF ~PassphraseSet THEN {rows}
    ELSE {[i \in RowIds(rows) |->
             [rows[i] EXCEPT !.secret_key = encrypt_secret(secrets[i])[1]]] :
          secrets \in [RowIds(rows) -> Secrets]}

DiffersOnlyInSecrets(rows, other) ==
    /\ Len(rows) = Len(other)
    /\ \A i \in RowIds(rows) :
          [rows[i] EXCEPT !.secret_key = ""] = [other[i] EXCEPT !.secret_key = ""]

\* C22: on the table of the current state and on any table that differs from it
\* only in the stored secrets, POST /proxy/credentials and GET
\* /proxy/credentials/{access_key} give the same status and the same body, the
\* tables after the POST again differ only in secrets, and a body holds
\* customer_id, access_key and created_at and nothing else.
C22_SecretsNotRevealed ==
    \A other \in SecretVariants(tenant_credentials) :
       /\ \A ak \in AccessKeys :
             LET here == get_tenant_credentials_result(tenant_credentials, ak)
                 there == get_tenant_credentials_result(other, ak)
             IN  /\ here = there
                 /\ here.body # None =>
                       DOMAIN here.body[1] = {"customer_id", "access_key", "created_at"}
       /\ \A c \in Customers, ak \in AccessKeys, sk \in Secrets :
             LET here == create_tenant_credentials_result(tenant_credentials, c, ak, sk, now)
                 there == create_tenant_credentials_result(other, c, ak, sk, now)
             IN  /\ here.status = there.status
                 /\ here.body = there.body
                 /\ DiffersOnlyInSecrets(here.rows, there.rows)
                 /\ here.body # None =>
                       DOMAIN here.body[1] = {"customer_id", "access_key", "created_at"}

\* Two tenants with different secrets are stored, and GET /proxy/credentials of
\* one of them was answered 200.
C22_Witness ==
    /\ Len(tenant_credentials) = 2
    /\ decrypt_secret(tenant_credentials[1].secret_key)
         # decrypt_secret(tenant_credentials[2].secret_key)
    /\ resp.steps = <<"require_admin", "get_tenant_credentials">>
    /\ resp.status = 200
    /\ get_tenant_credentials_result(tenant_credentials, "AK2").status = 200

\* C23: while TENANT_SECRET_PASSPHRASE is unset or empty, POST /proxy/credentials,
\* GET /proxy/credentials/{access_key} and a data-plane request with a
\* well-formed Authorization header are each answered 500, and the POST leaves
\* tenant_credentials as it was.
C23_UnsetPassphraseIs500 ==
    ~PassphraseSet =>
       /\ \A c \in Customers, ak \in AccessKeys, sk \in Secrets :
             LET out == create_tenant_credentials_result(tenant_credentials, c, ak, sk, now)
             IN  out.status = 500 /\ out.rows = tenant_credentials
       /\ \A ak \in AccessKeys :
             get_tenant_credentials_result(tenant_credentials, ak).status = 500
       /\ \A req \in Requests :
             Components(req) # None =>
                proxy_request_result(req, FALSE).resp.status = 500

\* The bucket_mappings rows of (customer_id, logical_name, backend_id).
MappingsOf(payload) ==
    {i \in RowIds(bucket_mappings) :
        /\ bucket_mappings[i].customer_id = payload.customer_id
        /\ bucket_mappings[i].logical_name = payload.logical_name
        /\ bucket_mappings[i].backend_id = payload.backend_id}

\* C24: a POST /proxy/objects for (customer_id, logical_name, backend_id) without
\* a bucket mapping is answered 404, inserts no object row and no replication job
\* and starts no job loop; with a mapping it appends exactly one object row, whose
\* bucket_mapping_id is that mapping's id, and the listing of (customer_id,
\* logical_name) holds the new row with the posted object_key.
C24_ObjectNeedsMapping ==
    [][\A payload \in AdminObjectPayloads :
          create_object_metadata(payload) =>
             IF MappingsOf(payload) = {}
             THEN /\ post_objects'.status = 404
                  /\ post_objects'.pc = "idle"
                  /\ object_metadata' = object_metadata
                  /\ replication_jobs' = replication_jobs
             ELSE /\ Len(object_metadata') = Len(object_metadata) + 1
                  /\ SubSeq(object_metadata', 1, Len(object_metadata)) = object_metadata
                  /\ object_metadata'[Len(object_metadata')].bucket_mapping_id
                       \in MappingsOf(payload)
                  /\ \E o \in list_object_metadata_result(object_metadata', bucket_mappings',
                                   payload.customer_id, payload.logical_name) :
                        /\ o.id = Len(object_metadata')
                        /\ o.object_key = payload.object_key
                        /\ o.backend_id = payload.backend_id]_vars

\* An object of t1/docs was posted while docs is mapped on primary and on
\* cluster-b: the object row is owned by the mapping on primary and the listing
\* of t1/docs holds it.
C24_Witness ==
    /\ Len(object_metadata) = 1
    /\ post_objects.object_id = 1
    /\ post_objects.status = 200
    /\ \E i, j \in RowIds(bucket_mappings) :
          /\ bucket_mappings[i].backend_id = "primary"
          /\ bucket_mappings[j].backend_id = "cluster-b"
          /\ bucket_mappings[j].logical_name = "docs"
          /\ object_metadata[1].bucket_mapping_id = i
    /\ \E o \in list_object_metadata_result(object_metadata, bucket_mappings, "t1", "docs") :
          o.id = 1 /\ o.object_key = "foo.txt" /\ o.backend_id = "primary"

\* C25: a POST /proxy/jobs whose object_id is the id of no object_metadata row
\* is answered 404 and inserts no replication_jobs row.
C25_UnknownObjectIs404 ==
    \A object_id \in 1..(MaxObjects + 1), target \in BackendIds :
       object_id \notin RowIds(object_metadata) =>
          LET out == create_replication_job_result(object_metadata, bucket_mappings,
                         replication_jobs, object_id, target, now)
          IN  out.status = 404 /\ out.jobs = replication_jobs

\* C26: every replication_jobs row has the bucket_mapping_id of its object and
\* the backend_id of that mapping as source_backend_id; and for an object that
\* exists, POST /proxy/jobs with any target backend, mapped or not, appends a
\* row with status pending, attempts 0 and no last_error.
C26_JobRowOfItsObject ==
    /\ \A id \in RowIds(replication_jobs) :
          LET job == replication_jobs[id] IN
          /\ job.object_metadata_id \in RowIds(object_metadata)
          /\ job.bucket_mapping_id = object_metadata[job.object_metadata_id].bucket_mapping_id
          /\ job.bucket_mapping_id \in RowIds(bucket_mappings)
          /\ job.source_backend_id = bucket_mappings[job.bucket_mapping_id].backend_id
    /\ \A object_id \in RowIds(object_metadata), target \in BackendIds :
          LET out == create_replication_job_result(object_metadata, bucket_mappings,
                         replication_jobs, object_id, target, now)
              row == out.jobs[Len(out.jobs)]
          IN  /\ out.status = 200
              /\ Len(out.jobs) = Len(replication_jobs) + 1
              /\ SubSeq(out.jobs, 1, Len(replication_jobs)) = replication_jobs
              /\ row.object_metadata_id = object_id
              /\ row.target_backend = target
              /\ row.status = "pending"
              /\ row.attempts = 0
              /\ row.last_error = NULL

\* A job to cluster-b was inserted for an object of docs on primary while docs
\* has no mapping on cluster-b.
C26_Witness ==
    /\ replication_jobs # <<>>
    /\ replication_jobs[1].target_backend = "cluster-b"
    /\ replication_jobs[1].source_backend_id = "primary"
    /\ replication_jobs[1].status = "pending"
    /\ \A i \in RowIds(bucket_mappings) : bucket_mappings[i].backend_id # "cluster-b"

(***************************************************************************)
(* The naming function: POST /proxy/buckets with the backend ids of        *)
(* BackendIdInputs.                                                         *)
(***************************************************************************)
MaxMappings == 2

NextNames ==
    \/ \E c \in Customers, r \in Regions, b \in BackendIdInputs :
          /\ Len(bucket_mappings) < MaxMappings
          /\ create_bucket_mapping(c, r, "docs", <<b>>)
    \/ \E c \in Customers : get_bucket_mapping_endpoint(c, "docs")

SpecNames == Init /\ [][NextNames]_vars

\* str.lower() of the names of the naming function, computed once.
LowerCasedNames ==
    [c \in Customers, r \in Regions, l \in LogicalNames, b \in BackendIdInputs,
     n \in CollisionCounters |-> lower(BucketNames[c, r, l, b, n])]

\* C27: on the same (customer_id, region_id, logical_name, backend_id,
\* collision_counter) generate_backend_bucket_name returns the same string in
\* every state of the store; the string starts with s3gw- and has no upper-case
\* letter; and the names for the counters 0 and 1 differ.
C27_NamingIsDeterministic ==
    /\ [](\A c \in Customers, r \in Regions, l \in LogicalNames, b \in BackendIdInputs :
            /\ \A n \in CollisionCounters :
                  /\ StartsWith(generate_backend_bucket_name(c, r, l, b, n), "s3gw-")
                  /\ LowerCasedNames[c, r, l, b, n]
                       = generate_backend_bucket_name(c, r, l, b, n)
            /\ generate_backend_bucket_name(c, r, l, b, 0)
                 # generate_backend_bucket_name(c, r, l, b, 1))
    /\ [][\A c \in Customers, r \in Regions, l \in LogicalNames, b \in BackendIdInputs,
            n \in CollisionCounters :
               generate_backend_bucket_name(c, r, l, b, n)'
                 = generate_backend_bucket_name(c, r, l, b, n)]_vars

\* docs of t1 was mapped on Frontier after another mapping: the stored bucket is
\* the name of the naming function, in lower case.
C27_Witness ==
    /\ Len(bucket_mappings) = 2
    /\ bucket_mappings[2].backend_id = "Frontier"
    /\ bucket_mappings[2].backend_bucket
         = generate_backend_bucket_name("t1", "de", "docs", "Frontier", 0)
    /\ StartsWith(bucket_mappings[2].backend_bucket, "s3gw-")
    /\ SubSeq(bucket_mappings[2].backend_bucket, 23, 30) = "frontier"

BucketNameCharacters == "abcdefghijklmnopqrstuvwxyz0123456789-"

\* C28: for every customer_id, region_id, logical_name, backend_id (empty, in
\* mixed case, with underscores, dots or hyphens) and collision counter, the name
\* has 3 to 63 characters, all of [a-z0-9-], and neither starts nor ends with a
\* hyphen; so has every backend_bucket stored by POST /proxy/buckets.
S3Compliant(name) ==
    /\ Len(name) \in 3..63
    /\ \A i \in 1..Len(name) : Contains(BucketNameCharacters, CharAt(name, i))
    /\ CharAt(name, 1) # "-"
    /\ CharAt(name, Len(name)) # "-"

C28_NameIsS3Compliant ==
    /\ \A i \in RowIds(bucket_mappings) : S3Compliant(bucket_mappings[i].backend_bucket)
    /\ \A c \in Customers, r \in Regions, l \in LogicalNames, b \in BackendIdInputs,
          n \in CollisionCounters :
             S3Compliant(generate_backend_bucket_name(c, r, l, b, n))

\* C29: with a non-empty passphrase, for every secret x the token
\* encrypt_secret(x) is the URL-safe base64, padded with "=", of the bytes of x
\* each XORed with the byte of the 32-byte SHA-256 digest of the passphrase at
\* the same position modulo 32, and decrypt_secret of the token is x.
C29_RoundTrip ==
    PassphraseSet =>
       \A x \in SecretInputs :
          LET key == sha256_digest(environ[PASSPHRASE_ENV])
              token == encrypt_secret(x)
          IN  /\ Len(key) = 32
              /\ token # None
              /\ WellPadded(token[1])
              /\ Len(token[1]) = 4 * ((Len(x) + 2) \div 3)
              /\ urlsafe_b64decode(token[1])
                   = Some([i \in 1..Len(x) |->
                             xor(ord(CharAt(x, i)), key[((i - 1) % 32) + 1])])
              /\ decrypt_secret(token[1]) = Some(x)

\* Under the passphrase of the tests the secret s1 of a tenant is stored as the
\* token NHo=, and a fetch decrypts it to s1.
C29_Witness ==
    /\ environ[PASSPHRASE_ENV] = TestPassphrase
    /\ tenant_credentials # <<>>
    /\ tenant_credentials[1].secret_key = "NHo="
    /\ fetch_tenant_by_access_key(tenant_credentials,
                                  tenant_credentials[1].access_key).row[1].secret_key = "s1"

(***************************************************************************)
(* The provider catalogue: seed_provider_data on CSV files of at most two   *)
(* lines, which name four (provider, zone_code) in two versions, and lines  *)
(* without a zone code, a provider or a country.                            *)
(***************************************************************************)
MaxLines == 2

CsvLines ==
    [Country : {"FI"}, Zone_Code : {"hel1", "fsn1"}, Provider : {"hetzner", "upcloud"},
     Notes : {"v1", "v2"}]
    \cup {[Country |-> "FI", Zone_Code |-> "", Provider |-> "hetzner", Notes |-> "v1"],
          [Country |-> "FI", Zone_Code |-> "hel1", Provider |-> NULL, Notes |-> "v1"],
          [Country |-> NULL, Zone_Code |-> "hel1", Provider |-> "upcloud", Notes |-> "v1"]}

Catalogues == UNION {[1..n -> CsvLines] : n \in 0..MaxLines}

NextSeed ==
    \E exists \in BOOLEAN, lines \in Catalogues : seed_provider_data(exists, lines)

SpecSeed == Init /\ [][NextSeed]_vars

\* C30: seeding the table of the current state with a catalogue and then again
\* with the same catalogue gives the table of the first seeding; a run of
\* seed_provider_data leaves every row of the table as it was, the new rows
\* coming after them; and no two rows of the table have the same (provider,
\* zone_code).
C30_SeedIsIdempotent ==
    /\ [](/\ \A lines \in Catalogues :
                Seeded(Seeded(provider_capabilities, lines), lines)
                  = Seeded(provider_capabilities, lines)
          /\ \A i, j \in RowIds(provider_capabilities) :
                (/\ provider_capabilities[i].provider = provider_capabilities[j].provider
                 /\ provider_capabilities[i].zone_code = provider_capabilities[j].zone_code)
                   => i = j)
    /\ [][/\ Len(provider_capabilities') >= Len(provider_capabilities)
          /\ SubSeq(provider_capabilities', 1, Len(provider_capabilities))
               = provider_capabilities]_vars

\* The table was seeded with version v1 of hetzner/hel1 and later with a
\* catalogue that holds version v2 of it and a new zone: the row is still v1.
C30_Witness ==
    /\ Len(provider_capabilities) = 3
    /\ provider_capabilities[1].provider = "hetzner"
    /\ provider_capabilities[1].zone_code = "hel1"
    /\ provider_capabilities[1].notes = "v1"
    /\ Seeded(provider_capabilities,
              <<[Country |-> "FI", Zone_Code |-> "hel1", Provider |-> "hetzner",
                 Notes |-> "v2"]>>) = provider_capabilities

(***************************************************************************)
(* The client registry on a deployment with seventeen backends, with and   *)
(* without the credentials of the backends.  primary is requested at any   *)
(* time, the other backends one after the other, each once.                *)
(***************************************************************************)
MaxClients == 2

ClientEnvirons ==
    {[TestEnviron EXCEPT !["S3_BACKEND_ENDPOINTS"] =
                            {ConfiguredIds[i] : i \in 1..Len(ConfiguredIds)},
                         !["S3_BACKEND_ACCESS_KEY"] = access_key] :
     access_key \in {NULL, "backend-access"}}

InitClients ==
    /\ environ \in ClientEnvirons
    /\ now = 0
    /\ tenant_credentials = <<>>
    /\ bucket_mappings = <<>>
    /\ object_metadata = <<>>
    /\ replication_jobs = <<>>
    /\ storage = [b \in BackendIds |-> <<>>]
    /\ resp = [status |-> 0, steps |-> <<>>, op |-> None, body |-> NULL]
    /\ post_objects = [pc |-> "idle", object_id |-> NoRow, remaining |-> <<>>,
                       status |-> 0]
    /\ worker = [w \in Workers |-> IdleWorker(0)]
    /\ handled = <<>>
    /\ provider_capabilities = <<>>
    /\ client_cache = <<>>
    /\ boto3_clients = [b \in ClientIds |-> 0]
    /\ got_client = None
    /\ replication_queue = ReplicationQueue
    /\ queue_threads = [t \in QueueThreads |-> IdleThread(t)]
    /\ queue_history = NoQueueHistory

NextClients ==
    \/ /\ boto3_clients["primary"] < MaxClients
       /\ lru_cache_get_client("primary")
    \/ \E k \in 2..Len(ConfiguredIds) :
          /\ boto3_clients[ConfiguredIds[k]] = 0
          /\ boto3_clients[ConfiguredIds[k - 1]] > 0 \/ ACCESS_KEY = NULL
          /\ lru_cache_get_client(ConfiguredIds[k])
    \/ lru_cache_get_client("nowhere")

SpecClients == InitClients /\ [][NextClients]_vars

\* The body of get_client raises for backend_id.
Misconfigured(backend_id) ==
    \/ backend_id \notin ENDPOINTS
    \/ ACCESS_KEY \in {NULL, ""}
    \/ SECRET_KEY \in {NULL, ""}

\* C31: at most one client is ever made for a backend id, so that two successful
\* calls of get_client with the same id return the same client, whatever ids were
\* requested in between; and a call with an id without endpoint, or without the
\* credentials of the backends, raises 500 and leaves the cache as it was.
C31_ClientMemoised ==
    /\ [](\A b \in ClientIds : boto3_clients[b] <= 1)
    /\ [][\A b \in ClientIds :
            (lru_cache_get_client(b) /\ Misconfigured(b)) =>
               /\ got_client' = Some([exc |-> 500, client |-> <<>>])
               /\ client_cache' = client_cache
               /\ boto3_clients' = boto3_clients]_vars

\* C32: after a data-plane PUT of the key k to the logical bucket b on the
\* backend x that is answered 200, GET /proxy/objects/{customer_id}/{b} lists an
\* object with the key k of the (tenant, b, x) bucket mapping, whose id a
\* replication job can name.
C32_PutIsRecorded ==
    [][\A req \in ObjectRequests, fails \in BOOLEAN :
         (/\ req.method = "PUT"
          /\ proxy_request(req, fails)
          /\ resp'.status = 200) =>
            \E o \in list_object_metadata_result(object_metadata', bucket_mappings',
                                                 "t1", req.logical_name) :
               /\ o.object_key = req.object_path
               /\ o.backend_id = (IF req.backend_id # NULL THEN req.backend_id
                                  ELSE DEFAULT_BACKEND_ID)
               /\ o.id \in RowIds(object_metadata')]_vars

\* C33: in every interleaving of the workers, a job whose status is completed is
\* never set to failed, and a job whose status is failed is never set to
\* completed and keeps its attempts.
C33_TerminalStatuses ==
    [][\A id \in RowIds(replication_jobs) :
         /\ replication_jobs[id].status = "completed" =>
               replication_jobs'[id].status # "failed"
         /\ replication_jobs[id].status = "failed" =>
               /\ replication_jobs'[id].status # "completed"
               /\ replication_jobs'[id].attempts = replication_jobs[id].attempts]_vars

(***************************************************************************)
(* scripts/replication_worker.py: the polling loop of one worker.  pc idle *)
(* is the top of while True, pc sleep is time.sleep(interval).  limit is   *)
(* the limit of process_pending_jobs: DEFAULT_LIMIT, which no number of    *)
(* pending jobs of the model exceeds, or 1, which stands for a limit below *)
(* the number of pending jobs.                                             *)
(***************************************************************************)
\* if processed == 0: time.sleep(interval), for the worker state at the return
\* of process_pending_jobs.
main_if(returned) ==
    IF returned.processed = 0 THEN [returned EXCEPT !.pc = "sleep"] ELSE returned

\* processed = replication.process_pending_jobs(conn), up to the fetch: with no
\* row the call returns 0 at once and main goes on to its test of processed.
main_process_pending_jobs(w, limit) ==
    \/ /\ PendingIds(replication_jobs) # {}
       /\ WorkerFetch(w, limit)
    \/ /\ PendingIds(replication_jobs) = {}
       /\ worker[w].pc = "idle"
       /\ worker' = [worker EXCEPT ![w] = main_if(IdleWorker(0))]
       /\ UNCHANGED <<replication_queue, queue_threads, queue_history, client_cache, boto3_clients, got_client, provider_capabilities,
                      environ, now, tenant_credentials, bucket_mappings,
                      object_metadata, replication_jobs, storage, resp, post_objects,
                      handled>>

\* time.sleep(interval) returns.
main_sleep_returns(w) ==
    /\ worker[w].pc = "sleep"
    /\ worker' = [worker EXCEPT ![w].pc = "idle"]
    /\ UNCHANGED <<replication_queue, queue_threads, queue_history, client_cache, boto3_clients, got_client, provider_capabilities,
                   environ, now, tenant_credentials, bucket_mappings, object_metadata,
                   replication_jobs, storage, resp, post_objects, handled>>

\* A step of the worker process.
main(w) ==
    \/ \E limit \in Limits : main_process_pending_jobs(w, limit)
    \/ \E get_fails, put_fails \in BOOLEAN : WorkerHandler(w, get_fails, put_fails)
    \/ WorkerMark(w)
    \/ main_sleep_returns(w)

\* One worker in its polling loop, the admin calls that make jobs, and the
\* uploads to the backends.
NextPolling ==
    \/ \E bs \in ReplBackendLists : create_bucket_mapping("t1", "fi", "docs", bs)
    \/ \E payload \in {p \in ObjectPayloads : p.logical_name = "docs"} :
          create_object_metadata(payload)
    \/ create_object_metadata_job
    \/ \E id \in 1..MaxObjects, target \in {"cluster-b", "cluster-c"} :
          create_replication_job(id, target)
    \/ \E key \in ObjectKeys, body \in Bodies : BackendUpload(1, key, body)
    \/ main(1)

SpecPolling == Init /\ [][NextPolling]_vars

\* The operating system schedules the worker process: a step of the loop that
\* stays possible is taken.
FairPolling == SpecPolling /\ WF_vars(main(1))

Min(a, b) == IF a < b THEN a ELSE b

\* C34: with one worker in the polling loop under weak fairness, every pending
\* job is eventually completed or failed; process_pending_jobs claims
\* min(limit, number of pending jobs) jobs and returns the number it claimed,
\* whether the jobs failed or not; and the loop sleeps only after a run that
\* claimed no job.
C34_PollingLoop ==
    /\ \A id \in 1..MaxJobs :
          (id \in RowIds(replication_jobs) /\ replication_jobs[id].status = "pending")
             ~> (/\ id \in RowIds(replication_jobs)
                 /\ replication_jobs[id].status \in {"completed", "failed"})
    /\ [][/\ \A limit \in Limits :
               (worker[1].pc = "idle" /\ main_process_pending_jobs(1, limit)) =>
                  worker'[1].processed + Len(worker'[1].rows)
                     = Min(limit, Cardinality(PendingIds(replication_jobs)))
          /\ (worker[1].pc \in {"handler", "mark"} /\ main(1)) =>
                worker'[1].processed + Len(worker'[1].rows)
                   = worker[1].processed + Len(worker[1].rows)
          /\ (worker[1].pc # "sleep" /\ worker'[1].pc = "sleep") =>
                /\ worker'[1].processed = 0
                /\ PendingIds(replication_jobs) = {}
          /\ (worker[1].pc = "mark" /\ worker'[1].pc = "idle") =>
                worker'[1].processed > 0]_vars

\* A run of process_pending_jobs has returned 2 after a job that failed and a
\* job that was completed.
C34_Witness ==
    /\ worker[1].pc = "idle"
    /\ worker[1].processed = 2
    /\ \E i, j \in RowIds(replication_jobs) :
          /\ replication_jobs[i].status = "failed"
          /\ replication_jobs[j].status = "completed"

(***************************************************************************)
(* The store under the data plane and the worker: the admin calls, the     *)
(* signed requests of one tenant for one key, and one worker in its loop.  *)
(* The objects reach the backends through the data plane.                  *)
(***************************************************************************)
FrameRequests ==
    {req \in ObjectRequests :
        /\ req.object_path = "foo.txt"
        /\ req.backend_id = NULL
        /\ req.body = "hello"
        /\ req.content_type = (IF req.method = "PUT" THEN "text/plain" ELSE NULL)}

NextFrame ==
    \/ create_tenant_credentials("t1", "AK1", "s1")
    \/ create_bucket_mapping("t1", "fi", "docs", <<"primary", "cluster-b">>)
    \/ \E payload \in {p \in ObjectPayloads : p.targets # <<"cluster-b">>} :
          create_object_metadata(payload)
    \/ create_object_metadata_job
    \/ create_replication_job(1, "cluster-b")
    \/ \E req \in FrameRequests, fails \in BOOLEAN : proxy_request(req, fails)
    \/ main(1)

SpecFrame == Init /\ [][NextFrame]_vars

\* The rows of jobs and after differ at most in status, attempts and last_error.
SameButStatus(before, after) ==
    /\ after.bucket_mapping_id = before.bucket_mapping_id
    /\ after.object_metadata_id = before.object_metadata_id
    /\ after.source_backend_id = before.source_backend_id
    /\ after.target_backend = before.target_backend
    /\ after.created_at = before.created_at

\* C35: a data-plane request, whatever its method and its answer, and a step of
\* the worker leave tenant_credentials, bucket_mappings and object_metadata as
\* they are; a data-plane request leaves replication_jobs as it is, and a step
\* of the worker keeps the rows of replication_jobs, changing at most status,
\* attempts and last_error of the job the worker has claimed and is at.
C35_DataPlaneAndWorkerFrame ==
    [][/\ (\E req \in FrameRequests, fails \in BOOLEAN : proxy_request(req, fails)) =>
             /\ tenant_credentials' = tenant_credentials
             /\ bucket_mappings' = bucket_mappings
             /\ object_metadata' = object_metadata
             /\ replication_jobs' = replication_jobs
       /\ main(1) =>
             /\ tenant_credentials' = tenant_credentials
             /\ bucket_mappings' = bucket_mappings
             /\ object_metadata' = object_metadata
             /\ RowIds(replication_jobs') = RowIds(replication_jobs)
             /\ \A id \in RowIds(replication_jobs) :
                   /\ SameButStatus(replication_jobs[id], replication_jobs'[id])
                   /\ replication_jobs'[id] # replication_jobs[id] =>
                         /\ worker[1].pc = "mark"
                         /\ CurrentJob(1).id = id]_vars

\* The worker has completed a job and failed another, and a data-plane PUT has
\* stored an object, with rows in every table.
C35_Witness ==
    /\ tenant_credentials # <<>>
    /\ object_metadata # <<>>
    /\ resp.status = 200
    /\ \E b \in BackendIds : \E k \in DOMAIN storage[b] : storage[b][k] = "hello"
    /\ \E i, j \in RowIds(replication_jobs) :
          /\ replication_jobs[i].status = "failed"
          /\ replication_jobs[j].status = "completed"

\* C36: with a single worker, in every reachable state the status of each job
\* is pending, completed or failed; a pending job and a completed job have
\* attempts 0 and no last_error; a failed job has attempts 1 and a last_error.
\* The handler of a job is invoked at most once: a job the handler is invoked
\* for is pending and no handler was invoked for it before.
C36_SingleWorkerJobStates ==
    /\ [](\A id \in RowIds(replication_jobs) :
            LET job == replication_jobs[id] IN
            /\ job.status \in {"pending", "completed", "failed"}
            /\ job.status = "pending" => job.attempts = 0 /\ job.last_error = NULL
            /\ job.status = "completed" => job.attempts = 0 /\ job.last_error = NULL
            /\ job.status = "failed" => job.attempts = 1 /\ job.last_error # NULL)
    /\ [][HandlerStep(1) =>
             /\ replication_jobs[CurrentJob(1).id].status = "pending"
             /\ handled[CurrentJob(1).id] = {}]_vars

\* The worker has completed a job and failed another, each handled once.
C36_Witness ==
    \E i, j \in RowIds(replication_jobs) :
       /\ replication_jobs[i].status = "failed"
       /\ replication_jobs[i].attempts = 1
       /\ replication_jobs[j].status = "completed"
       /\ handled[i] = {1}
       /\ handled[j] = {1}

gateway_vars ==
    <<environ, now, tenant_credentials, bucket_mappings, object_metadata, replication_jobs,
      storage, resp, post_objects, worker, handled, provider_capabilities, client_cache,
      boto3_clients, got_client>>

Holds(seq, x) == \E i \in 1..Len(seq) : seq[i] = x

Remove(seq, x) == SelectSeq(seq, LAMBDA y : y # x)

\* _move_to_completed(job); the cut to the last 1000 completed jobs is out of
\* reach of the jobs of the model.
_move_to_completed(rq, job_id) ==
    [rq EXCEPT !.active_jobs = Remove(@, job_id), !.completed_jobs = @ \cup {job_id}]

\* The dict get_job_status returns for job_id, None when it knows no such job.
JobStatusDict(rq, job_id) ==
    IF Holds(rq.active_jobs, job_id)
    THEN Some([job_id |-> job_id, status |-> rq.job[job_id].status,
               retry_count |-> rq.job[job_id].retry_count])
    ELSE IF job_id \in rq.completed_jobs
    THEN Some([job_id |-> job_id, status |-> rq.job[job_id].status])
    ELSE None

\* add_job(job), for a job object that was not added before.
add_job(t, job_id) ==
    /\ queue_threads[t].pc = "idle"
    /\ job_id \notin queue_history.added
    /\ replication_queue.lock = None
    /\ replication_queue' =
          [replication_queue EXCEPT
              !.queue = Append(@, [priority |-> replication_queue.job[job_id].priority,
                                   job_id |-> job_id]),
              !.active_jobs = Append(@, job_id)]
    /\ queue_history' = [queue_history EXCEPT !.added = @ \cup {job_id}]
    /\ UNCHANGED <<queue_threads, gateway_vars>>

\* get_job_status(job_id), called from outside or by list_active_jobs for the
\* next key of active_jobs.  It takes self.lock, so it waits while any thread
\* holds the lock, the calling thread included.  With the last key done,
\* list_active_jobs leaves its with block and returns the list.
get_job_status(t, job_id) ==
    /\ replication_queue.lock = None
    /\ LET thread == queue_threads[t]
           dict == JobStatusDict(replication_queue, job_id)
       IN  IF thread.pc = "idle"
           THEN /\ queue_history' = [queue_history EXCEPT !.status = Some(dict)]
                /\ UNCHANGED <<replication_queue, queue_threads>>
           ELSE /\ thread.pc = "list_active_jobs"
                /\ thread.remaining # <<>>
                /\ job_id = Head(thread.remaining)
                /\ IF Tail(thread.remaining) = <<>>
                   THEN /\ queue_threads' = [queue_threads EXCEPT ![t] = IdleThread(t)]
                        /\ queue_history' =
                              [queue_history EXCEPT
                                  !.listed = Some(Append(thread.result, dict))]
                        /\ replication_queue' = [replication_queue EXCEPT !.lock = None]
                   ELSE /\ queue_threads' =
                              [queue_threads EXCEPT
                                  ![t].remaining = Tail(@), ![t].result = Append(@, dict)]
                        /\ UNCHANGED <<replication_queue, queue_history>>
    /\ UNCHANGED gateway_vars

\* list_active_jobs(): it takes self.lock and, holding it, calls get_job_status
\* for every key of active_jobs; without any key it returns [] at once.
list_active_jobs(t) ==
    /\ queue_threads[t].pc = "idle"
    /\ replication_queue.lock = None
    /\ IF replication_queue.active_jobs = <<>>
       THEN /\ queue_history' = [queue_history EXCEPT !.listed = Some(<<>>)]
            /\ UNCHANGED <<replication_queue, queue_threads>>
       ELSE /\ replication_queue' = [replication_queue EXCEPT !.lock = Some(t)]
            /\ queue_threads' =
                  [queue_threads EXCEPT
                      ![t].pc = "list_active_jobs",
                      ![t].remaining = replication_queue.active_jobs,
                      ![t].result = <<>>]
            /\ UNCHANGED queue_history
    /\ UNCHANGED gateway_vars

\* cancel_job(job_id)
cancel_job(t, job_id) ==
    /\ queue_threads[t].pc = "idle"
    /\ replication_queue.lock = None
    /\ LET cancels == /\ Holds(replication_queue.active_jobs, job_id)
                      /\ replication_queue.job[job_id].status = "queued"
       IN  /\ replication_queue' =
                 IF cancels
                 THEN _move_to_completed(
                         [replication_queue EXCEPT !.job[job_id].status = "cancelled"],
                         job_id)
                 ELSE replication_queue
           /\ queue_history' =
                 [queue_history EXCEPT
                     !.cancelled = IF cancels THEN @ \cup {job_id} ELSE @]
    /\ UNCHANGED <<queue_threads, gateway_vars>>

\* The entry queue.get returns: the lowest priority number, and the earliest
\* insertion among equal priorities.
QueueGetIndex(entries) ==
    CHOOSE i \in 1..Len(entries) :
       \A k \in 1..Len(entries) :
          \/ entries[i].priority < entries[k].priority
          \/ entries[i].priority = entries[k].priority /\ i <= k

\* _worker_loop: priority, insertion_order, job = self.queue.get(timeout=1)
_worker_loop(w) ==
    /\ queue_threads[w].pc = "get"
    /\ replication_queue.queue # <<>>
    /\ LET i == QueueGetIndex(replication_queue.queue) IN
       /\ queue_threads' =
             [queue_threads EXCEPT
                 ![w].pc = "process", ![w].job_id = replication_queue.queue[i].job_id]
       /\ replication_queue' = [replication_queue EXCEPT !.queue = Without(@, i)]
    /\ UNCHANGED <<queue_history, gateway_vars>>

\* _process_job, its first block: job.status = RUNNING
_process_job(w) ==
    /\ queue_threads[w].pc = "process"
    /\ replication_queue.lock = None
    /\ replication_queue' =
          [replication_queue EXCEPT !.job[queue_threads[w].job_id].status = "running"]
    /\ queue_threads' = [queue_threads EXCEPT ![w].pc = "execute"]
    /\ UNCHANGED <<queue_history, gateway_vars>>

\* success = self._execute_replication(job), which returns True or False and
\* raises nothing.
_execute_replication(w, success) ==
    /\ queue_threads[w].pc = "execute"
    /\ queue_threads' = [queue_threads EXCEPT ![w].pc = "result", ![w].success = success]
    /\ queue_history' = [queue_history EXCEPT !.executed = @ \cup {queue_threads[w].job_id}]
    /\ UNCHANGED <<replication_queue, gateway_vars>>

\* _process_job, its second block: COMPLETED, or a retry, or FAILED after
\* max_retries.
_process_job_result(w) ==
    /\ queue_threads[w].pc = "result"
    /\ replication_queue.lock = None
    /\ LET job_id == queue_threads[w].job_id
           job == replication_queue.job[job_id]
           retry_count == job.retry_count + 1
       IN  replication_queue' =
              IF queue_threads[w].success
              THEN _move_to_completed(
                      [replication_queue EXCEPT !.job[job_id].status = "completed"], job_id)
              ELSE IF retry_count >= job.max_retries
              THEN _move_to_completed(
                      [replication_queue EXCEPT !.job[job_id].status = "failed",
                                                !.job[job_id].retry_count = retry_count],
                      job_id)
              ELSE [replication_queue EXCEPT
                       !.job[job_id].status = "retrying",
                       !.job[job_id].retry_count = retry_count,
                       !.queue = Append(@, [priority |-> job.priority + 1,
                                            job_id |-> job_id])]
    /\ queue_threads' = [queue_threads EXCEPT ![w] = IdleThread(w)]
    /\ UNCHANGED <<queue_history, gateway_vars>>

\* A step of thread t.
QueueThread(t) ==
    \/ \E job_id \in JobIds : add_job(t, job_id)
    \/ \E job_id \in JobIds : get_job_status(t, job_id)
    \/ list_active_jobs(t)
    \/ \E job_id \in JobIds : cancel_job(t, job_id)
    \/ _worker_loop(t)
    \/ _process_job(t)
    \/ \E success \in BOOLEAN : _execute_replication(t, success)
    \/ _process_job_result(t)

NextQueue == \E t \in QueueThreads : QueueThread(t)

SpecQueue == Init /\ [][NextQueue]_vars

\* Every thread that can take a step is scheduled.
FairQueue == SpecQueue /\ \A t \in QueueThreads : WF_vars(QueueThread(t))

\* C38: a job cancel_job returned True for keeps the status CANCELLED and is
\* not executed by any worker afterwards, in every interleaving of add_job,
\* cancel_job and the workers.  (The job was QUEUED when it was cancelled, so no
\* worker had executed it before.)
C38_CancelledIsNotExecuted ==
    \A job_id \in queue_history.cancelled :
       /\ replication_queue.job[job_id].status = "cancelled"
       /\ job_id \notin queue_history.executed

\* C39: a call of list_active_jobs that has taken the lock returns, whatever the
\* workers do, and the list it returns has one entry per job in active_jobs.
C39_ListActiveJobsReturns ==
    /\ \A t \in ApiThreads :
          (queue_threads[t].pc = "list_active_jobs") ~> (queue_threads[t].pc = "idle")
    /\ [][\A t \in ApiThreads :
            (list_active_jobs(t) /\ queue_history'.listed # queue_history.listed) =>
               Len(queue_history'.listed[1]) = Len(replication_queue.active_jobs)]_vars

====
